---------------------------- MODULE Spec2Model ----------------------------
(***************************************************************************)
(* A model of the SSA-to-LLVM lowering engine of compiler/compiler.go.     *)
(*                                                                         *)
(* The module holds several specifications over one set of variables; each *)
(* specification moves the variables of its own part and leaves the other  *)
(* parts at their idle values:                                             *)
(*                                                                         *)
(*   SpecDefer  the code emitted for Defer / RunDefers / Panic / Return,   *)
(*              executed instruction by instruction (the d* variables).    *)
(*   SpecLower  parseFunc lowering the blocks of one SSA function to LLVM  *)
(*              blocks: calls, go statements, phi nodes, terminators and   *)
(*              the coroutine scaffolding (the l* variables).              *)
(*   SpecBounds parseExpr lowering the index and slice expressions of a    *)
(*              function with their bounds checks (the b* variables).      *)
(*   SpecTypes  Compile declaring and then defining the named struct types *)
(*              of the program (the t* variables).                         *)
(*   SpecDecl   Compile declaring the functions with parseFuncDecl and     *)
(*              lowering their Return (the f* variables).                  *)
(*   SpecDriver the driver's Compile: the phases, the verification after   *)
(*              each and the output (the v* variables).                    *)
(*   SpecErr    the way of the errors of parseExpr and getInterpretedValue *)
(*              to the result of Compile (the e* variables).               *)
(*   SpecI64    ExternalInt64AsPtr walking the functions of the module and *)
(*              the uses of the imports (the x* variables).                *)
(*   SpecMain   Compile emitting runtime.initAll and runtime.mainWrapper   *)
(*              (the m* variables).                                        *)
(*   SpecShift  parseBinOp lowering a shift of integers (the s*            *)
(*              variables).                                                *)
(*   SpecI2C    machine.I2C running WriteRegister or ReadRegister (the i*  *)
(*              variables).                                                *)
(*   SpecStr    parseBinOp lowering a comparison of strings and the        *)
(*              runtime computing it (the q* variables).                   *)
(*   SpecMap    getInterpretedValue building the buckets of a map literal  *)
(*              (the h* variables).                                        *)
(*   SpecThunk  parseInstr registering defer thunks and Compile emitting   *)
(*              them (the k* variables).                                   *)
(*   SpecClosure parseMakeClosure building a context and parseFunc reading *)
(*              it back (the c* variables).                                *)
(*   SpecIter   a range loop over a string calling stringNext (the r*      *)
(*              variables).                                                *)
(*   SpecUtf8   a rune through encodeUTF8 and back through decodeUTF8 (the *)
(*              u* variables).                                             *)
(*   SpecPutchar the wasm runtime's putchar gathering a line for writeLog  *)
(*              (the p* variables).                                        *)
(***************************************************************************)
EXTENDS Integers, Sequences, FiniteSets, TLC

VARIABLES
    \* ---- execution of the code lowered for defer / rundefers / panic ----
    dProg,      \* the SSA function: [body, term]
    dPc,        \* index of the next emitted instruction in Lowered(dProg)
    dSlot,      \* content of the deferPtr alloca: Undef, Null or a frame address
    dReg,       \* the value of the last load from deferPtr (defer.next / deferData)
    dFrames,    \* the defer.alloca frames built so far, by address
    dOrder,     \* addresses of the frames in the order the defer sites ran
    dWalk,      \* runtime.rundefers: the frame it is at, Null when not running
    dTrace,     \* the calls observed so far, <<callee, args>>
    dStatus,    \* "run", "returned", "panicked"
    dRan,       \* TRUE once a rundefers call was executed
    dIter,      \* times the loop body was entered
    \* ---- parseFunc lowering one SSA function ----
    lFn,        \* the SSA function: [shape, body, blocking]
    lPhase,     \* "start", "blocks", "phis", "done"
    lCur,       \* frame.currentBlock: the SSA block being filled
    lIdx,       \* the next instruction of lCur to lower
    lBlocks,    \* the LLVM blocks of the function: [name, instrs], by id
    lEntries,   \* frame.blockEntries: SSA block -> LLVM block id
    lExits,     \* frame.blockExits: SSA block -> LLVM block id
    lInsert,    \* the builder's insertion block
    lCleanup,   \* frame.cleanupBlock (0 if none)
    lSuspend,   \* frame.suspendBlock (0 if none)
    lPhis,      \* frame.phis: [block, at, incoming]
    lResolved,  \* how many entries of frame.phis were resolved
    lTermAt,    \* SSA block -> the LLVM block its terminator was emitted in
    \* ---- parseExpr on index and slice expressions ----
    bNoBounds,  \* frame.fn.IsNoBounds()
    bPtrSize,   \* c.targetData.PointerSize()
    bExprs,     \* the expressions lowered so far
    bCode,      \* the instructions emitted for them, in order
    bPhase,     \* "lowering", "done", "error"
    \* ---- Compile declaring and defining the named structs ----
    tTypes,     \* c.ir.NamedTypes: [struct, fields]
    tPhase,     \* "declare", "define", "done", "error"
    tIdx,       \* the entry of NamedTypes the running loop is at
    tModule,    \* the named struct types of the LLVM module, by name
    tLLVMType,  \* t.LLVMType of each entry ("": not set)
    tBody,      \* the StructSetBody calls made: [type, elems]
    \* ---- Compile declaring the functions and lowering their returns ----
    fFuncs,     \* c.ir.Functions: [name, blocking, results, params]
    fPhase,     \* "declare", "define", "done", "error"
    fIdx,       \* the function the running loop is at
    fModule,    \* the functions of the LLVM module: [name, ret, params]
    fLLVMFn,    \* frame.fn.LLVMFn of each function: its place in fModule (0: none)
    fCode,      \* the instructions emitted for the Return of each function
    \* ---- the driver's Compile: phases and verifications ----
    vSpec,      \* the build: [triple, initInterp, opt]
    vPc,        \* the statement the driver is at
    vTrace,     \* the phases and verifications run so far: [ev, ok]
    vResult,    \* the returned error, "" while running, "ok" for nil
    vOutput,    \* TRUE once an output file was emitted
    \* ---- Compile and the errors of instructions and initializers ----
    eProg,      \* the instructions and initializers to lower: [kind, fail, cause]
    eIdx,       \* the item Compile is at
    eValues,    \* the value kept for each lowered item ("nil": llvm.Value{})
    eErr,       \* the error Compile returned ("": nil)
    ePhase,     \* "run", "done", "error"
    \* ---- ExternalInt64AsPtr over the functions of the module ----
    xFuncs,     \* the functions of the module: [name, linkage, params, decl, body, orig]
    xCalls,     \* the call instructions of the module: [callee, args, was]
    xIdx,       \* the function the pass is at
    xUse,       \* the use of the function the pass is at (0: nil)
    xPhase,     \* "funcs", "uses", "done", "crashed"
    \* ---- Compile emitting runtime.initAll and runtime.mainWrapper ----
    mCfg,       \* the program: [sched, debug, pkg, inits]
    mFuncs,     \* linkage and code of initAll and mainWrapper
    mPc,        \* "initAll", "inits", "mainWrapper", "calls", "ret", "done"
    \* ---- parseBinOp lowering a shift ----
    sOp,        \* the shift: [op, signed, wx, wy]
    sY,         \* the width of the value y stands for at this point
    sCode,      \* the instructions emitted
    sPc,        \* "sizes", "shift", "done"
    \* ---- machine.I2C: WriteRegister and ReadRegister ----
    iCall,      \* the call: [fn, address, register]
    iData,      \* the slice data
    iIdx,       \* the loop index of Write or Read
    iBus,       \* the operations on the bus so far
    iPc,        \* the statement the method is at
    \* ---- parseBinOp on strings, and the runtime running the result ----
    qOp,        \* the operation: [op, x, y]
    qCode,      \* the instructions emitted for it
    qVal,       \* the values computed so far, one for each instruction run
    qPc,        \* "lower", "run", "done"
    \* ---- getInterpretedValue on a map literal ----
    hLit,       \* the literal: [n, bad] (n pairs; the value of pair bad fails, 0: none)
    hBuckets,   \* the bucket globals, in the order of their creation
    hCur,       \* bucketGlobal: the bucket the pairs go to
    hI,         \* the index of the next pair
    hMap,       \* the hashmap global (<<>>: none)
    hPc,        \* "bucket", "pairs", "done", "failed"
    \* ---- the defer thunks of the module ----
    kSites,     \* the defer instructions of the program, in lowering order
    kIdx,       \* how many of them are lowered
    kDecls,     \* the names of the thunk functions added to the module
    kFuncs,     \* c.deferFuncs
    kInvokes,   \* c.deferInvokeFuncs
    kCtxs,      \* c.ctxDeferFuncs
    kBodies,    \* the thunks whose body is emitted: [name, kind, callee, after]
    kPc,        \* "funcs", "thunks", "done"
    \* ---- MakeClosure and the entry of the closure function ----
    cFn,        \* the closure: [ptr, types] (pointer size, types of the bound variables)
    cMem,       \* the memory the context is built in: the bytes of the alloca or heap block
    cStored,    \* how many bound variables are stored
    cContext,   \* the context value of the closure: [inline, bytes]
    cSlot,      \* the memory the function reads its free variables from
    cLocals,    \* the values loaded for the free variables
    cPc,        \* "alloc", "store", "context", "entry", "load", "done"
    \* ---- a range loop over a string: stringNext and decodeUTF8 ----
    rS,         \* the string
    rIt,        \* the iterator: [byteindex, rangeindex]
    rCalls,     \* the calls of stringNext so far: [ok, key, value, before, after]
    rPc,        \* "loop", "done"
    \* ---- a rune through encodeUTF8 and back through decodeUTF8 ----
    uX,         \* the rune
    uEnc,       \* what encodeUTF8 returned: <<the four bytes, the length>>
    uDec,       \* what decodeUTF8 returned: <<the rune, the length>>
    uPc,        \* "rune", "encoded", "decoded"
    \* ---- the wasm runtime's putchar and its line buffer ----
    pLine,      \* the package variable line, a byte slice
    pLog,       \* the calls of writeLog so far: [level, line]
    pChars      \* every byte given to putchar so far

deferVars == <<dProg, dPc, dSlot, dReg, dFrames, dOrder, dWalk, dTrace, dStatus, dRan, dIter>>

lowerVars == <<lFn, lPhase, lCur, lIdx, lBlocks, lEntries, lExits, lInsert, lCleanup,
               lSuspend, lPhis, lResolved, lTermAt>>

boundsVars == <<bNoBounds, bPtrSize, bExprs, bCode, bPhase>>

typesVars == <<tTypes, tPhase, tIdx, tModule, tLLVMType, tBody>>

declVars == <<fFuncs, fPhase, fIdx, fModule, fLLVMFn, fCode>>

driverVars == <<vSpec, vPc, vTrace, vResult, vOutput>>

errVars == <<eProg, eIdx, eValues, eErr, ePhase>>

i64Vars == <<xFuncs, xCalls, xIdx, xUse, xPhase>>

mainVars == <<mCfg, mFuncs, mPc>>

shiftVars == <<sOp, sY, sCode, sPc>>

i2cVars == <<iCall, iData, iIdx, iBus, iPc>>

strVars == <<qOp, qCode, qVal, qPc>>

mapVars == <<hLit, hBuckets, hCur, hI, hMap, hPc>>

thunkVars == <<kSites, kIdx, kDecls, kFuncs, kInvokes, kCtxs, kBodies, kPc>>

closureVars == <<cFn, cMem, cStored, cContext, cSlot, cLocals, cPc>>

iterVars == <<rS, rIt, rCalls, rPc>>

utf8Vars == <<uX, uEnc, uDec, uPc>>

putcharVars == <<pLine, pLog, pChars>>

vars == <<deferVars, lowerVars, boundsVars, typesVars, declVars, driverVars, errVars, i64Vars, mainVars, shiftVars, i2cVars, strVars, mapVars, thunkVars, closureVars, iterVars, utf8Vars, putcharVars>>

\* The variables each specification leaves alone.
notDefer == <<lowerVars, boundsVars, typesVars, declVars, driverVars, errVars, i64Vars, mainVars, shiftVars, i2cVars, strVars, mapVars, thunkVars, closureVars, iterVars, utf8Vars, putcharVars>>
notLower == <<deferVars, boundsVars, typesVars, declVars, driverVars, errVars, i64Vars, mainVars, shiftVars, i2cVars, strVars, mapVars, thunkVars, closureVars, iterVars, utf8Vars, putcharVars>>
notBounds == <<deferVars, lowerVars, typesVars, declVars, driverVars, errVars, i64Vars, mainVars, shiftVars, i2cVars, strVars, mapVars, thunkVars, closureVars, iterVars, utf8Vars, putcharVars>>
notTypes == <<deferVars, lowerVars, boundsVars, declVars, driverVars, errVars, i64Vars, mainVars, shiftVars, i2cVars, strVars, mapVars, thunkVars, closureVars, iterVars, utf8Vars, putcharVars>>
notDecl == <<deferVars, lowerVars, boundsVars, typesVars, driverVars, errVars, i64Vars, mainVars, shiftVars, i2cVars, strVars, mapVars, thunkVars, closureVars, iterVars, utf8Vars, putcharVars>>
notDriver == <<deferVars, lowerVars, boundsVars, typesVars, declVars, errVars, i64Vars, mainVars, shiftVars, i2cVars, strVars, mapVars, thunkVars, closureVars, iterVars, utf8Vars, putcharVars>>
notErr == <<deferVars, lowerVars, boundsVars, typesVars, declVars, driverVars, i64Vars, mainVars, shiftVars, i2cVars, strVars, mapVars, thunkVars, closureVars, iterVars, utf8Vars, putcharVars>>
notMain == <<deferVars, lowerVars, boundsVars, typesVars, declVars, driverVars, errVars, i64Vars, shiftVars, i2cVars, strVars, mapVars, thunkVars, closureVars, iterVars, utf8Vars, putcharVars>>
notShift == <<deferVars, lowerVars, boundsVars, typesVars, declVars, driverVars, errVars, i64Vars, mainVars, i2cVars, strVars, mapVars, thunkVars, closureVars, iterVars, utf8Vars, putcharVars>>
notI2C == <<deferVars, lowerVars, boundsVars, typesVars, declVars, driverVars, errVars, i64Vars, mainVars, shiftVars, strVars, mapVars, thunkVars, closureVars, iterVars, utf8Vars, putcharVars>>
notI64 == <<deferVars, lowerVars, boundsVars, typesVars, declVars, driverVars, errVars, mainVars, shiftVars, i2cVars, strVars, mapVars, thunkVars, closureVars, iterVars, utf8Vars, putcharVars>>
notStr == <<deferVars, lowerVars, boundsVars, typesVars, declVars, driverVars, errVars, i64Vars, mainVars, shiftVars, i2cVars, mapVars, thunkVars, closureVars, iterVars, utf8Vars, putcharVars>>
notMap == <<deferVars, lowerVars, boundsVars, typesVars, declVars, driverVars, errVars, i64Vars, mainVars, shiftVars, i2cVars, strVars, thunkVars, closureVars, iterVars, utf8Vars, putcharVars>>
notThunk == <<deferVars, lowerVars, boundsVars, typesVars, declVars, driverVars, errVars, i64Vars, mainVars, shiftVars, i2cVars, strVars, mapVars, closureVars, iterVars, utf8Vars, putcharVars>>
notClosure == <<deferVars, lowerVars, boundsVars, typesVars, declVars, driverVars, errVars, i64Vars, mainVars, shiftVars, i2cVars, strVars, mapVars, thunkVars, iterVars, utf8Vars, putcharVars>>
notIter == <<deferVars, lowerVars, boundsVars, typesVars, declVars, driverVars, errVars, i64Vars, mainVars, shiftVars, i2cVars, strVars, mapVars, thunkVars, closureVars, utf8Vars, putcharVars>>
notUtf8 == <<deferVars, lowerVars, boundsVars, typesVars, declVars, driverVars, errVars, i64Vars, mainVars, shiftVars, i2cVars, strVars, mapVars, thunkVars, closureVars, iterVars, putcharVars>>
notPutchar == <<deferVars, lowerVars, boundsVars, typesVars, declVars, driverVars, errVars, i64Vars, mainVars, shiftVars, i2cVars, strVars, mapVars, thunkVars, closureVars, iterVars, utf8Vars>>

----------------------------------------------------------------------------
(* Bounds of the model.                                                    *)

\* longest SSA body (instructions before the terminator) of SpecDefer
MaxBody == 3
\* most times the loop body of a looping function is entered
MaxIter == 2
\* most SSA instructions, terminators not counted, of a function of SpecLower
MaxInstrs == 2
\* most index and slice expressions of a function of SpecBounds
MaxExprs == 2
\* the length of the arrays indexed and sliced in SpecBounds
ArrayLen == 2
\* most named types of the program of SpecTypes
MaxTypes == 3
\* most functions of the program of SpecDecl
MaxFuncs == 2
\* most instructions and initializers of the program of SpecErr
MaxItems == 2
\* most call instructions that call one function of the module of SpecI64
MaxCalls == 2
\* most package initializers in c.initFuncs
MaxInits == 2
\* longest slice handed to WriteRegister and ReadRegister
MaxData == 2
\* longest string compared
MaxStr == 2
\* most pairs of a map literal
MaxPairs == 17
\* most defer instructions of the program of SpecThunk
MaxSites == 2
\* most bound variables of a closure
MaxVars == 2
\* longest string iterated over, in bytes
MaxBytes == 3
\* runes taken on either side of each change of the encoded length
RuneRun == 40
\* most calls of putchar
MaxPut == 6

----------------------------------------------------------------------------
(* Helpers.                                                                *)

Null == 0
Undef == -1

Last(s) == s[Len(s)]

RECURSIVE Flatten(_)
Flatten(ss) == IF ss = <<>> THEN <<>> ELSE Head(ss) \o Flatten(Tail(ss))

Reverse(s) == [i \in 1..Len(s) |-> s[Len(s) + 1 - i]]

SeqsUpTo(S, n) == UNION {[1..k -> S] : k \in 0..n}

----------------------------------------------------------------------------
(* The idle values of the parts a specification does not move.             *)

LowerIdle ==
    /\ lFn = [shape |-> <<>>, body |-> <<>>, blocking |-> FALSE]
    /\ lPhase = "idle"
    /\ lCur = 0
    /\ lIdx = 0
    /\ lBlocks = <<>>
    /\ lEntries = <<>>
    /\ lExits = <<>>
    /\ lInsert = 0
    /\ lCleanup = 0
    /\ lSuspend = 0
    /\ lPhis = <<>>
    /\ lResolved = 0
    /\ lTermAt = <<>>

DeferIdle ==
    /\ dProg = [body |-> <<>>, term |-> "return"]
    /\ dPc = 0
    /\ dSlot = Undef
    /\ dReg = Undef
    /\ dFrames = <<>>
    /\ dOrder = <<>>
    /\ dWalk = Null
    /\ dTrace = <<>>
    /\ dStatus = "idle"
    /\ dRan = FALSE
    /\ dIter = 0

BoundsIdle ==
    /\ bNoBounds = FALSE
    /\ bPtrSize = 0
    /\ bExprs = <<>>
    /\ bCode = <<>>
    /\ bPhase = "idle"

TypesIdle ==
    /\ tTypes = <<>>
    /\ tPhase = "idle"
    /\ tIdx = 0
    /\ tModule = {}
    /\ tLLVMType = <<>>
    /\ tBody = <<>>

DeclIdle ==
    /\ fFuncs = <<>>
    /\ fPhase = "idle"
    /\ fIdx = 0
    /\ fModule = <<>>
    /\ fLLVMFn = <<>>
    /\ fCode = <<>>

DriverIdle ==
    /\ vSpec = <<>>
    /\ vPc = "idle"
    /\ vTrace = <<>>
    /\ vResult = ""
    /\ vOutput = FALSE

ErrIdle ==
    /\ eProg = <<>>
    /\ eIdx = 0
    /\ eValues = <<>>
    /\ eErr = ""
    /\ ePhase = "idle"

I64Idle ==
    /\ xFuncs = <<>>
    /\ xCalls = <<>>
    /\ xIdx = 0
    /\ xUse = 0
    /\ xPhase = "idle"

MainIdle ==
    /\ mCfg = <<>>
    /\ mFuncs = <<>>
    /\ mPc = "idle"

ShiftIdle ==
    /\ sOp = <<>>
    /\ sY = 0
    /\ sCode = <<>>
    /\ sPc = "idle"

I2CIdle ==
    /\ iCall = <<>>
    /\ iData = <<>>
    /\ iIdx = 0
    /\ iBus = <<>>
    /\ iPc = "idle"

StrIdle ==
    /\ qOp = <<>>
    /\ qCode = <<>>
    /\ qVal = <<>>
    /\ qPc = "idle"

MapIdle ==
    /\ hLit = <<>>
    /\ hBuckets = <<>>
    /\ hCur = 0
    /\ hI = 0
    /\ hMap = <<>>
    /\ hPc = "idle"

ThunkIdle ==
    /\ kSites = <<>>
    /\ kIdx = 0
    /\ kDecls = <<>>
    /\ kFuncs = <<>>
    /\ kInvokes = <<>>
    /\ kCtxs = <<>>
    /\ kBodies = <<>>
    /\ kPc = "idle"

ClosureIdle ==
    /\ cFn = <<>>
    /\ cMem = <<>>
    /\ cStored = 0
    /\ cContext = <<>>
    /\ cSlot = <<>>
    /\ cLocals = <<>>
    /\ cPc = "idle"

IterIdle ==
    /\ rS = <<>>
    /\ rIt = <<>>
    /\ rCalls = <<>>
    /\ rPc = "idle"

Utf8Idle ==
    /\ uX = 0
    /\ uEnc = <<>>
    /\ uDec = <<>>
    /\ uPc = "idle"

PutcharIdle ==
    /\ pLine = <<>>
    /\ pLog = <<>>
    /\ pChars = <<>>

----------------------------------------------------------------------------
(* SpecDefer: the SSA input.                                               *)

\* A defer site: the kind of the deferred callee, the callee and its argument.
DeferSites ==
    { [kind |-> "func",    callee |-> "f", arg |-> "x"],
      [kind |-> "func",    callee |-> "f", arg |-> "y"],
      [kind |-> "invoke",  callee |-> "m", arg |-> "x"],
      [kind |-> "closure", callee |-> "c", arg |-> "x"] }

RunDefersInstr == [kind |-> "rundefers", callee |-> "", arg |-> ""]

BodyInstrs == DeferSites \cup {RunDefersInstr}

\* How the function ends: a return, a panic, or a loop over the body that is
\* left through a return.
Terminators == {"return", "panic", "loop"}

HasDefer(body) == \E i \in 1..Len(body) : body[i] \in DeferSites

\* The SSA builder emits RunDefers only in a function that has defer
\* statements (fn.Recover # nil exactly for those).
DeferProgs ==
    { [body |-> b, term |-> t] : b \in SeqsUpTo(BodyInstrs, MaxBody), t \in Terminators }

ValidProg(p) ==
    /\ (\E i \in 1..Len(p.body) : p.body[i] = RunDefersInstr) => HasDefer(p.body)
    /\ p.term = "loop" => Len(p.body) >= 1

----------------------------------------------------------------------------
(* SpecDefer: the lowering of the instructions (parseFunc, parseInstr).    *)

Ins(op, thunk, payload) == [op |-> op, thunk |-> thunk, payload |-> payload]

\* parseFunc: "Create defer list pointer", only if frame.fn.Recover # nil.
EmitDeferPtr(hasRecover) ==
    IF hasRecover
    THEN << Ins("alloca.deferPtr", "", <<>>), Ins("store.null.deferPtr", "", <<>>) >>
    ELSE << >>

\* The name of the thunk a defer site registers.
ThunkName(site) ==
    CASE site.kind = "func"    -> site.callee \o "$defer"
      [] site.kind = "invoke"  -> site.callee \o "$defer"
      [] site.kind = "closure" -> "fn$fpdefer"

\* The values put in the defer frame after {callback, next}.
DeferPayload(site) ==
    CASE site.kind = "func"    -> <<site.arg>>
      [] site.kind = "invoke"  -> <<site.callee, site.arg>>
      [] site.kind = "closure" -> <<site.callee, site.arg>>

\* parseInstr, case *ssa.Defer: load the head, build the frame in an alloca,
\* store the alloca as the new head.
EmitDefer(site) ==
    << Ins("load.deferPtr", "", <<>>),
       Ins("defer.alloca", ThunkName(site), DeferPayload(site)),
       Ins("store.deferPtr", "", <<>>) >>

\* parseInstr, case *ssa.RunDefers.
EmitRunDefers ==
    << Ins("load.deferPtr", "", <<>>), Ins("call.rundefers", "", <<>>) >>

\* parseInstr, case *ssa.Panic.
EmitPanic(value) ==
    << Ins("call._panic", "", <<value>>), Ins("unreachable", "", <<>>) >>

\* parseInstr, case *ssa.Return of a non-blocking function without results.
EmitReturnVoid == << Ins("ret", "", <<>>) >>

EmitBodyInstr(i) == IF i = RunDefersInstr THEN EmitRunDefers ELSE EmitDefer(i)

\* The SSA terminator sequence: a return of a function with defers is
\* preceded by RunDefers; a panic is the bare Panic instruction.
EmitTerm(p) ==
    LET ret == (IF HasDefer(p.body) THEN EmitRunDefers ELSE <<>>) \o EmitReturnVoid
    IN CASE p.term = "return" -> ret
         [] p.term = "panic"  -> EmitPanic("p")
         [] p.term = "loop"   -> << Ins("condbr", "", <<>>) >> \o ret

\* The emitted code of the whole function, in execution order.
Lowered(p) ==
    EmitDeferPtr(HasDefer(p.body))
      \o Flatten([i \in 1..Len(p.body) |-> EmitBodyInstr(p.body[i])])
      \o EmitTerm(p)

\* Where the loop body starts in Lowered(p).
BodyStart(p) == Len(EmitDeferPtr(HasDefer(p.body))) + 1

----------------------------------------------------------------------------
(* SpecDefer: executing the emitted code.                                  *)

DeferInit ==
    /\ dProg \in {p \in DeferProgs : ValidProg(p)}
    /\ dPc = 1
    /\ dSlot = Undef
    /\ dReg = Undef
    /\ dFrames = <<>>
    /\ dOrder = <<>>
    /\ dWalk = Null
    /\ dTrace = <<>>
    /\ dStatus = "run"
    /\ dRan = FALSE
    /\ dIter = 1

dCode == Lowered(dProg)

dCur == dCode[dPc]

Running == dStatus = "run" /\ dWalk = Null /\ dPc \in 1..Len(dCode)

\* store null, deferPtr
ExecStoreNull ==
    /\ Running /\ dCur.op \in {"alloca.deferPtr", "store.null.deferPtr"}
    /\ dSlot' = (IF dCur.op = "store.null.deferPtr" THEN Null ELSE Undef)
    /\ dPc' = dPc + 1
    /\ UNCHANGED <<dProg, dReg, dFrames, dOrder, dWalk, dTrace, dStatus, dRan, dIter>>

\* defer.next / deferData = load deferPtr
ExecLoad ==
    /\ Running /\ dCur.op = "load.deferPtr"
    /\ dReg' = dSlot
    /\ dPc' = dPc + 1
    /\ UNCHANGED <<dProg, dSlot, dFrames, dOrder, dWalk, dTrace, dStatus, dRan, dIter>>

\* (mutant of NewFrame: the frame is not linked to the previous head)
NewFrameUnlinked(ins, next) == [thunk |-> ins.thunk, next |-> Null, payload |-> ins.payload]

\* The frame {callback, next, payload...} stored in a fresh defer.alloca.
NewFrame(ins, next) == [thunk |-> ins.thunk, next |-> next, payload |-> ins.payload]

ExecAlloca ==
    /\ Running /\ dCur.op = "defer.alloca"
    /\ dFrames' = Append(dFrames, NewFrame(dCur, dReg))
    /\ dPc' = dPc + 1
    /\ UNCHANGED <<dProg, dSlot, dReg, dOrder, dWalk, dTrace, dStatus, dRan, dIter>>

\* store defer.alloca.cast, deferPtr
NewHead(frames) == Len(frames)

ExecStoreHead ==
    /\ Running /\ dCur.op = "store.deferPtr"
    /\ dSlot' = NewHead(dFrames)
    /\ dOrder' = Append(dOrder, Len(dFrames))
    /\ dPc' = dPc + 1
    /\ UNCHANGED <<dProg, dReg, dFrames, dWalk, dTrace, dStatus, dRan, dIter>>

\* call runtime.rundefers(deferData): starts the walk at the loaded head.
ExecRunDefers ==
    /\ Running /\ dCur.op = "call.rundefers"
    /\ dRan' = TRUE
    /\ IF dReg = Null
       THEN dWalk' = Null /\ dPc' = dPc + 1
       ELSE dWalk' = dReg /\ dPc' = dPc
    /\ UNCHANGED <<dProg, dSlot, dReg, dFrames, dOrder, dTrace, dStatus, dIter>>

\* The thunk registry of Compile (c.deferFuncs, c.deferInvokeFuncs,
\* c.ctxDeferFuncs): the kind of a thunk and, for a regular function, the
\* function it wraps.
ThunkSite(name) == CHOOSE s \in DeferSites : ThunkName(s) = name

\* What a thunk does with its frame: the call it makes.
ThunkCall(frame) ==
    LET site == ThunkSite(frame.thunk)
    IN CASE site.kind = "func" ->
              \* fields 2.. are the arguments of the wrapped function
              <<site.callee, frame.payload>>
         [] site.kind = "invoke" ->
              \* field 2 is the function pointer, fields 3.. its arguments
              <<frame.payload[1], Tail(frame.payload)>>
         [] site.kind = "closure" ->
              \* field 2 is the closure, fields 3.. the arguments; the
              \* closure's context is appended
              <<frame.payload[1], Tail(frame.payload) \o <<"context">> >>

\* One round of runtime.rundefers: stack.callback(stack); stack = stack.next.
RunDefersStep ==
    /\ dStatus = "run" /\ dWalk # Null
    /\ dTrace' = Append(dTrace, ThunkCall(dFrames[dWalk]))
    /\ dWalk' = dFrames[dWalk].next
    /\ dPc' = IF dFrames[dWalk].next = Null THEN dPc + 1 ELSE dPc
    /\ UNCHANGED <<dProg, dSlot, dReg, dFrames, dOrder, dStatus, dRan, dIter>>

\* call runtime._panic(value); unreachable
ExecPanic ==
    /\ Running /\ dCur.op = "call._panic"
    /\ dTrace' = Append(dTrace, <<"runtime._panic", dCur.payload>>)
    /\ dStatus' = "panicked"
    /\ dPc' = dPc + 1
    /\ UNCHANGED <<dProg, dSlot, dReg, dFrames, dOrder, dWalk, dRan, dIter>>

\* ret void
ExecRet ==
    /\ Running /\ dCur.op = "ret"
    /\ dStatus' = "returned"
    /\ UNCHANGED <<dProg, dPc, dSlot, dReg, dFrames, dOrder, dWalk, dTrace, dRan, dIter>>

\* The loop's conditional branch: back to the body, or on to the return.
ExecLoopBack ==
    /\ Running /\ dCur.op = "condbr"
    /\ dIter < MaxIter
    /\ dPc' = BodyStart(dProg)
    /\ dIter' = dIter + 1
    /\ UNCHANGED <<dProg, dSlot, dReg, dFrames, dOrder, dWalk, dTrace, dStatus, dRan>>

ExecLoopExit ==
    /\ Running /\ dCur.op = "condbr"
    /\ dPc' = dPc + 1
    /\ UNCHANGED <<dProg, dSlot, dReg, dFrames, dOrder, dWalk, dTrace, dStatus, dRan, dIter>>

DeferNext ==
    \/ ExecStoreNull /\ UNCHANGED notDefer
    \/ ExecLoad /\ UNCHANGED notDefer
    \/ ExecAlloca /\ UNCHANGED notDefer
    \/ ExecStoreHead /\ UNCHANGED notDefer
    \/ ExecRunDefers /\ UNCHANGED notDefer
    \/ RunDefersStep /\ UNCHANGED notDefer
    \/ ExecPanic /\ UNCHANGED notDefer
    \/ ExecRet /\ UNCHANGED notDefer
    \/ ExecLoopBack /\ UNCHANGED notDefer
    \/ ExecLoopExit /\ UNCHANGED notDefer

InitDefer == DeferInit /\ LowerIdle /\ BoundsIdle /\ TypesIdle /\ DeclIdle /\ DriverIdle /\ ErrIdle /\ I64Idle /\ MainIdle /\ ShiftIdle /\ I2CIdle /\ StrIdle /\ MapIdle /\ ThunkIdle /\ ClosureIdle /\ IterIdle /\ Utf8Idle /\ PutcharIdle

SpecDefer == InitDefer /\ [][DeferNext]_vars

----------------------------------------------------------------------------
(* SpecDefer: the claims.                                                  *)

\* The frames reached from address a by following the next fields.
RECURSIVE Chain(_)
Chain(a) == IF a = Null THEN <<>> ELSE <<a>> \o Chain(dFrames[a].next)

\* The function has a defer head slot and its prologue has run.
SlotLive == dStatus # "idle" /\ HasDefer(dProg.body) /\ dPc >= BodyStart(dProg)

\* C1: in a function with a defer head slot the slot is null at function
\* entry, and after k executions of defer sites with no rundefers in between
\* the slot points to the most recently built frame and the next fields lead
\* from the head through exactly the k frames, newest first, to null.
C1_DeferListShape ==
    (SlotLive /\ ~dRan) =>
        /\ dOrder = <<>> => dSlot = Null
        /\ dOrder # <<>> => dSlot = Last(dOrder)
        /\ Chain(dSlot) = Reverse(dOrder)
        /\ Len(Chain(dSlot)) = Len(dOrder)

\* C1 witness: a defer site inside a loop ran twice, three frames are linked.
C1_Witness ==
    /\ SlotLive /\ ~dRan
    /\ Len(dOrder) = 3 /\ dIter = 2 /\ dSlot = 3
    /\ Chain(dSlot) = <<3, 2, 1>>

\* The function body of C2: defer f(x); defer f(y); panic(p).
C2_Prog ==
    [body |-> << [kind |-> "func", callee |-> "f", arg |-> "x"],
                 [kind |-> "func", callee |-> "f", arg |-> "y"] >>,
     term |-> "panic"]

\* C2 (as claimed): executing the lowered body defer f(x); defer f(y);
\* panic(p) runs f(y), then f(x), and only then is runtime._panic(p) observed.
C2_DefersRunBeforePanic ==
    (dProg = C2_Prog /\ dStatus = "panicked") =>
        dTrace = << <<"f", <<"y">> >>, <<"f", <<"x">> >>, <<"runtime._panic", <<"p">> >> >>


----------------------------------------------------------------------------
(* SpecLower: the SSA input.                                               *)

\* The SSA instructions of a block body.  A call or a go statement names the
\* kind of its static callee: "plain" (IsBlocking is false), "blocking"
\* (IsBlocking is true) or "sleep" (time.Sleep; parseFunctionCall takes
\* params[0] as its duration, so no parent handle is prepended for it:
\* IsBlocking is false).
CallInstrs == {"call.plain", "call.blocking", "call.sleep"}
GoInstrs == {"go.plain", "go.blocking", "go.sleep"}
SsaInstrs == CallInstrs \cup GoInstrs \cup {"phi"}

Callee(instr) ==
    CASE instr \in {"call.plain", "go.plain"}       -> "main.f"
      [] instr \in {"call.blocking", "go.blocking"} -> "main.g"
      [] instr \in {"call.sleep", "go.sleep"}       -> "time.Sleep"

\* c.ir.IsBlocking of a callee.
IsBlocking(callee) == callee = "main.g"

\* The control-flow graphs: the terminator of every block, blocks numbered in
\* dominator pre-order.
Term(k, succs) == [k |-> k, succs |-> succs]

Shapes ==
    { << Term("return", <<>>) >>,
      << Term("panic", <<>>) >>,
      << Term("if", <<2, 3>>), Term("jump", <<4>>), Term("jump", <<4>>), Term("return", <<>>) >>,
      << Term("jump", <<2>>), Term("if", <<3, 4>>), Term("jump", <<2>>), Term("return", <<>>) >>,
      << Term("jump", <<2>>), Term("jump", <<2>>) >> }

HasEdge(shape, p, b) == \E i \in 1..Len(shape[p].succs) : shape[p].succs[i] = b

\* block.Preds, in block order.
RECURSIVE PredsFrom(_, _, _)
PredsFrom(shape, b, p) ==
    IF p > Len(shape) THEN <<>>
    ELSE (IF HasEdge(shape, p, b) THEN <<p>> ELSE <<>>) \o PredsFrom(shape, b, p + 1)

Preds(shape, b) == PredsFrom(shape, b, 1)

\* All ways to give n blocks bodies of at most k instructions in total.
RECURSIVE Bodies(_, _)
Bodies(n, k) ==
    IF n = 0 THEN {<<>>}
    ELSE UNION { { <<b>> \o rest : rest \in Bodies(n - 1, k - Len(b)) } :
                 b \in SeqsUpTo(SsaInstrs, k) }

AllInstrs(body) == Flatten(body)

Contains(body, instr) ==
    \E b \in 1..Len(body) : \E i \in 1..Len(body[b]) : body[b][i] = instr

\* What the front end and the analysis passes guarantee of a function:
\* phi nodes lead a block that has predecessors; a blocking function has a
\* call that may suspend (time.Sleep or a blocking callee); a function that
\* calls time.Sleep or a blocking callee is blocking.
ValidFn(f) ==
    /\ \A b \in 1..Len(f.body) : \A i \in 1..Len(f.body[b]) :
          f.body[b][i] = "phi" =>
              /\ Len(Preds(f.shape, b)) >= 2
              /\ \A j \in 1..i : f.body[b][j] = "phi"
    /\ f.blocking => (Contains(f.body, "call.sleep") \/ Contains(f.body, "call.blocking"))
    /\ ~f.blocking => (~Contains(f.body, "call.sleep") /\ ~Contains(f.body, "call.blocking"))

LowerFns ==
    { f \in UNION { [shape : {sh}, body : Bodies(Len(sh), MaxInstrs), blocking : BOOLEAN] :
                    sh \in Shapes } : ValidFn(f) }

----------------------------------------------------------------------------
(* SpecLower: the emitted LLVM instructions.                               *)

\* An LLVM instruction: opcode, callee, result name, operands, target
\* blocks, and the SSA instruction <<sb, si>> it was emitted for (0, 0: the
\* prologue).
LI(op, fn, res, args, tgt) ==
    [op |-> op, fn |-> fn, res |-> res, args |-> args, tgt |-> tgt, sb |-> 0, si |-> 0]

CallI(fn, res, args) == LI("call", fn, res, args, <<>>)

RECURSIVE SumLens(_)
SumLens(bs) == IF bs = <<>> THEN 0 ELSE Len(Head(bs).instrs) + SumLens(Tail(bs))

\* The name of the k-th value created next (unnamed values are numbered).
NextVal(k) == "%" \o ToString(SumLens(lBlocks) + k)

\* The block InsertBasicBlock creates next.
NewBlockId == Len(lBlocks) + 1

\* (mutant of SuspendSwitch: the cleanup and suspend targets are exchanged)
SuspendSwitchSwapped(val, resume) ==
    LI("switch", "", "", <<val>>, <<lCleanup, resume, lSuspend>>)

\* The switch after a llvm.coro.suspend: <<default, case 0, case 1>>, with 0
\* for a case that is absent.
SuspendSwitch(val, resume) == LI("switch", "", "", <<val>>, <<lSuspend, resume, lCleanup>>)

CoroSuspend(res, final) == CallI("llvm.coro.suspend", res, <<"none", final>>)

\* parseFunc, "Coroutine initialization".
CoroInitCode ==
    << LI("alloca", "", "task.state", <<"runtime.taskState">>, <<>>),
       CallI("llvm.coro.id", "task.token", <<"0", "task.state", "null", "null">>),
       CallI("llvm.coro.size.i32", "task.size", <<>>),
       CallI("runtime.alloc", "task.data", <<"task.size">>),
       CallI("llvm.coro.begin", "task.handle", <<"task.token", "task.data">>) >>

\* (mutant of CoroCleanupCode: the parent task is not handed to the scheduler)
CoroCleanupCodeNoYield(suspendBlock) ==
    << CallI("llvm.coro.free", "task.data.free", <<"task.token", "task.handle">>),
       CallI("runtime.free", "", <<"task.data.free">>),
       LI("br", "", "", <<>>, <<suspendBlock>>) >>

\* parseFunc, "Coroutine cleanup".
CoroCleanupCode(suspendBlock) ==
    << CallI("llvm.coro.free", "task.data.free", <<"task.token", "task.handle">>),
       CallI("runtime.free", "", <<"task.data.free">>),
       CallI("runtime.yieldToScheduler", "", <<"parent">>),
       LI("br", "", "", <<>>, <<suspendBlock>>) >>

\* parseFunc, "Coroutine suspend".
CoroSuspendCode ==
    << CallI("llvm.coro.end", "unused", <<"task.handle", "0">>),
       LI("ret", "", "", <<"task.handle">>, <<>>) >>

\* (mutant of SleepCode: time.Sleep is called like any function)
SleepCodeDirect(params) ==
    [code |-> << CallI("time.Sleep", "", params) >>, split |-> "", result |-> "nil"]

\* parseFunctionCall, time.Sleep in a blocking frame.
SleepCode(params) ==
    [code |-> << CallI("runtime.sleepTask", "", <<"task.handle", params[1]>>),
                 CoroSuspend(NextVal(2), "false"),
                 SuspendSwitch(NextVal(2), NewBlockId) >>,
     split |-> "task.wakeup",
     result |-> "nil"]

\* (mutant of AsyncCallCode: the caller does not wait for the callee)
AsyncCallCodeNoWait(callee, params) ==
    [code |-> << CallI(callee, NextVal(1), params),
                 CallI("runtime.yieldToScheduler", "", <<NextVal(1)>>),
                 CoroSuspend(NextVal(3), "false"),
                 SuspendSwitch(NextVal(3), NewBlockId) >>,
     split |-> "task.callComplete",
     result |-> NextVal(1)]

\* parseFunctionCall, "Calling a blocking function as a regular function call".
AsyncCallCode(callee, params) ==
    [code |-> << CallI(callee, NextVal(1), params),
                 CallI("runtime.yieldToScheduler", "", <<NextVal(1)>>),
                 CallI("runtime.waitForAsyncCall", "", <<"task.handle">>),
                 CoroSuspend(NextVal(4), "false"),
                 SuspendSwitch(NextVal(4), NewBlockId) >>,
     split |-> "task.callComplete",
     result |-> NextVal(1)]

\* parseFunctionCall: the code of a call of a static callee, the name of the
\* block it continues in ("" if the block is not split) and its result.
\* parentHandle is "nil" for a go statement and in a non-blocking frame.
FunctionCallCode(callee, parentHandle) ==
    LET blocking == IsBlocking(callee)
        params == (IF blocking
                   THEN << IF parentHandle = "nil" THEN "null" ELSE parentHandle >>
                   ELSE << >>) \o << "a" >>
    IN IF lFn.blocking /\ callee = "time.Sleep" THEN SleepCode(params)
       ELSE IF blocking /\ parentHandle # "nil" THEN AsyncCallCode(callee, params)
       ELSE [code |-> << CallI(callee, NextVal(1), params) >>, split |-> "",
             result |-> NextVal(1)]

\* parseExpr, case *ssa.Call: the parent handle is frame.taskHandle.
CallCode(instr) ==
    FunctionCallCode(Callee(instr), IF lFn.blocking THEN "task.handle" ELSE "nil")

\* parseInstr, case *ssa.Go.
GoCode(instr) ==
    LET call == FunctionCallCode(Callee(instr), "nil")
    IN IF ~IsBlocking(Callee(instr)) THEN call
       ELSE [call EXCEPT !.code = @ \o << CallI("runtime.yieldToScheduler", "", <<call.result>>) >>]

\* parseInstr: the terminators.
TermCode(t) ==
    CASE t.k = "jump" -> << LI("br", "", "", <<>>, <<lEntries[t.succs[1]]>>) >>
      [] t.k = "if" ->
            << LI("condbr", "", "", <<"cond">>, <<lEntries[t.succs[1]], lEntries[t.succs[2]]>>) >>
      [] t.k = "panic" ->
            << CallI("runtime._panic", "", <<"p">>), LI("unreachable", "", "", <<>>, <<>>) >>
      [] t.k = "return" ->
            IF lFn.blocking
            THEN << CoroSuspend(NextVal(1), "true"), SuspendSwitch(NextVal(1), 0) >>
            ELSE << LI("ret", "", "", <<>>, <<>>) >>

----------------------------------------------------------------------------
(* SpecLower: parseFunc.                                                   *)

LowerInit ==
    /\ lFn \in LowerFns
    /\ lPhase = "start"
    /\ lCur = 0
    /\ lIdx = 0
    /\ lBlocks = <<>>
    /\ lEntries = <<>>
    /\ lExits = <<>>
    /\ lInsert = 0
    /\ lCleanup = 0
    /\ lSuspend = 0
    /\ lPhis = <<>>
    /\ lResolved = 0
    /\ lTermAt = <<>>

NumBlocks == Len(lFn.shape)

Block(name, instrs) == [name |-> name, instrs |-> instrs]

\* The instructions tagged with the SSA instruction they are emitted for.
Tagged(code, b, i) == [k \in 1..Len(code) |-> [code[k] EXCEPT !.sb = b, !.si = i]]

\* builder.Create*: the code appended at the end of the insertion block.
Emitted(blocks, at, code) == [blocks EXCEPT ![at].instrs = @ \o code]

\* parseFunc up to "Fill blocks with instructions": all blocks pre-created,
\* the cleanup and suspend blocks and the coroutine initialization of a
\* blocking function, the builder at the entry block.
ParseFuncStart ==
    /\ lPhase = "start"
    /\ LET n == NumBlocks
           ssaBlocks == [b \in 1..n |-> Block("block", <<>>)]
           entry == IF lFn.blocking
                    THEN [ssaBlocks EXCEPT ![1].instrs = CoroInitCode]
                    ELSE ssaBlocks
       IN /\ lEntries' = [b \in 1..n |-> b]
          /\ lExits' = [b \in 1..n |-> b]
          /\ IF lFn.blocking
             THEN /\ lCleanup' = n + 1
                  /\ lSuspend' = n + 2
                  /\ lBlocks' = entry \o << Block("task.cleanup", CoroCleanupCode(n + 2)),
                                            Block("task.suspend", CoroSuspendCode) >>
             ELSE /\ lCleanup' = 0
                  /\ lSuspend' = 0
                  /\ lBlocks' = entry
          /\ lTermAt' = [b \in 1..n |-> 0]
    /\ lPhase' = "blocks"
    /\ lCur' = 1
    /\ lIdx' = 1
    /\ lInsert' = 1
    /\ UNCHANGED <<lFn, lPhis, lResolved>>

AtInstr ==
    /\ lPhase = "blocks"
    /\ lIdx <= Len(lFn.body[lCur])

CurInstr == lFn.body[lCur][lIdx]

\* The blocks after emitting a call sequence, and the block the builder is
\* left in (the wakeup / resume block if the sequence ends in a suspend).
ApplyCall(call) ==
    /\ lBlocks' = IF call.split = ""
                  THEN Emitted(lBlocks, lInsert, Tagged(call.code, lCur, lIdx))
                  ELSE Append(Emitted(lBlocks, lInsert, Tagged(call.code, lCur, lIdx)),
                              Block(call.split, <<>>))
    /\ lInsert' = IF call.split = "" THEN lInsert ELSE NewBlockId

\* parseInstr of an *ssa.Call value.
LowerCall ==
    /\ AtInstr /\ CurInstr \in CallInstrs
    /\ ApplyCall(CallCode(CurInstr))
    /\ lIdx' = lIdx + 1
    /\ UNCHANGED <<lFn, lPhase, lCur, lEntries, lExits, lCleanup, lSuspend, lPhis,
                   lResolved, lTermAt>>

\* parseInstr of an *ssa.Go.
LowerGo ==
    /\ AtInstr /\ CurInstr \in GoInstrs
    /\ ApplyCall(GoCode(CurInstr))
    /\ lIdx' = lIdx + 1
    /\ UNCHANGED <<lFn, lPhase, lCur, lEntries, lExits, lCleanup, lSuspend, lPhis,
                   lResolved, lTermAt>>

\* parseExpr, case *ssa.Phi: an empty phi, remembered in frame.phis.
LowerPhi ==
    /\ AtInstr /\ CurInstr = "phi"
    /\ lBlocks' = Emitted(lBlocks, lInsert,
                          Tagged(<< LI("phi", "", NextVal(1), <<>>, <<>>) >>, lCur, lIdx))
    /\ lPhis' = Append(lPhis, [block |-> lCur,
                               at |-> <<lInsert, Len(lBlocks[lInsert].instrs) + 1>>,
                               incoming |-> <<>>])
    /\ lIdx' = lIdx + 1
    /\ UNCHANGED <<lFn, lPhase, lCur, lEntries, lExits, lInsert, lCleanup, lSuspend,
                   lResolved, lTermAt>>

\* parseInstr of the block's terminator, then on to the next block of the
\* dominator pre-order (the builder is put at its entry block).
LowerTerminator ==
    /\ lPhase = "blocks"
    /\ lIdx = Len(lFn.body[lCur]) + 1
    /\ lBlocks' = Emitted(lBlocks, lInsert, Tagged(TermCode(lFn.shape[lCur]), lCur, lIdx))
    /\ lTermAt' = [lTermAt EXCEPT ![lCur] = lInsert]
    /\ IF lCur < NumBlocks
       THEN /\ lCur' = lCur + 1
            /\ lIdx' = 1
            /\ lInsert' = lEntries[lCur + 1]
            /\ lPhase' = "blocks"
       ELSE /\ lPhase' = "phis"
            /\ UNCHANGED <<lCur, lIdx, lInsert>>
    /\ UNCHANGED <<lFn, lEntries, lExits, lCleanup, lSuspend, lPhis, lResolved>>

\* (mutant of PhiIncoming: the edges are taken in reverse predecessor order)
PhiIncomingReversed(phi) ==
    LET preds == Preds(lFn.shape, phi.block)
    IN [i \in 1..Len(preds) |-> lExits[preds[Len(preds) + 1 - i]]]

\* parseFunc, "Resolve phi nodes": one incoming block per SSA predecessor.
PhiIncoming(phi) ==
    LET preds == Preds(lFn.shape, phi.block)
    IN [i \in 1..Len(preds) |-> lExits[preds[i]]]

ResolvePhi ==
    /\ lPhase = "phis"
    /\ lResolved < Len(lPhis)
    /\ lPhis' = [lPhis EXCEPT ![lResolved + 1].incoming = PhiIncoming(lPhis[lResolved + 1])]
    /\ lResolved' = lResolved + 1
    /\ UNCHANGED <<lFn, lPhase, lCur, lIdx, lBlocks, lEntries, lExits, lInsert, lCleanup,
                   lSuspend, lTermAt>>

\* parseFunc returns nil.
ParseFuncDone ==
    /\ lPhase = "phis"
    /\ lResolved = Len(lPhis)
    /\ lPhase' = "done"
    /\ UNCHANGED <<lFn, lCur, lIdx, lBlocks, lEntries, lExits, lInsert, lCleanup, lSuspend,
                   lPhis, lResolved, lTermAt>>

LowerNext ==
    \/ ParseFuncStart /\ UNCHANGED notLower
    \/ LowerCall /\ UNCHANGED notLower
    \/ LowerGo /\ UNCHANGED notLower
    \/ LowerPhi /\ UNCHANGED notLower
    \/ LowerTerminator /\ UNCHANGED notLower
    \/ ResolvePhi /\ UNCHANGED notLower
    \/ ParseFuncDone /\ UNCHANGED notLower

InitLower == LowerInit /\ DeferIdle /\ BoundsIdle /\ TypesIdle /\ DeclIdle /\ DriverIdle /\ ErrIdle /\ I64Idle /\ MainIdle /\ ShiftIdle /\ I2CIdle /\ StrIdle /\ MapIdle /\ ThunkIdle /\ ClosureIdle /\ IterIdle /\ Utf8Idle /\ PutcharIdle

SpecLower == InitLower /\ [][LowerNext]_vars

----------------------------------------------------------------------------
(* SpecLower: the claims.                                                  *)

Started == lPhase \in {"blocks", "phis", "done"}

\* The SSA instruction <<b, i>> has been lowered (i = Len(body) + 1: the
\* terminator).
IsLowered(b, i) ==
    /\ Started
    /\ b \in 1..NumBlocks
    /\ \/ lPhase \in {"phis", "done"}
       \/ b < lCur
       \/ b = lCur /\ i < lIdx

\* The instructions of LLVM block k emitted for the SSA instruction <<b, i>>.
Sel(k, b, i) ==
    LET of(x) == x.sb = b /\ x.si = i
    IN [j \in 1..Len(SelectSeq(lBlocks[k].instrs, of)) |->
           [SelectSeq(lBlocks[k].instrs, of)[j] EXCEPT !.sb = 0, !.si = 0]]

\* The LLVM blocks that hold instructions of <<b, i>>.
BlocksOf(b, i) == {k \in 1..Len(lBlocks) : Sel(k, b, i) # <<>>}

\* The site <<b, i>> ends LLVM block k with a suspend switch that resumes in
\* a fresh block named name, where the lowering of the SSA block continues.
SplitsInto(k, b, i, name) ==
    LET sw == Last(lBlocks[k].instrs)
        r == sw.tgt[2]
    IN /\ sw.op = "switch" /\ sw.sb = b /\ sw.si = i
       /\ r \in 1..Len(lBlocks) /\ r # k
       /\ \A e \in 1..NumBlocks : lEntries[e] # r
       /\ lBlocks[r].name = name
       /\ \A j \in 1..Len(lBlocks[r].instrs) :
             lBlocks[r].instrs[j].sb = b /\ lBlocks[r].instrs[j].si > i
       /\ (b = lCur /\ lIdx = i + 1 /\ lPhase = "blocks") => lInsert = r
       /\ IsLowered(b, i + 1) =>
             /\ lBlocks[r].instrs # <<>>
             /\ lBlocks[r].instrs[1].si = i + 1

RECURSIVE CountIn(_, _)
CountIn(instrs, fn) ==
    IF instrs = <<>> THEN 0
    ELSE (IF Head(instrs).op = "call" /\ Head(instrs).fn = fn THEN 1 ELSE 0)
         + CountIn(Tail(instrs), fn)

RECURSIVE CountFrom(_, _)
CountFrom(k, fn) ==
    IF k > Len(lBlocks) THEN 0 ELSE CountIn(lBlocks[k].instrs, fn) + CountFrom(k + 1, fn)

\* The calls of fn in the whole function.
CountCalls(fn) == CountFrom(1, fn)

\* The SSA block b was split: code of b lies outside its entry block.
WasSplit(b) ==
    \E k \in 1..Len(lBlocks) :
        /\ k # lEntries[b]
        /\ \E j \in 1..Len(lBlocks[k].instrs) : lBlocks[k].instrs[j].sb = b

\* C3 (as claimed): for every SSA block B, blockExits[B] is the LLVM block in
\* which B's terminator is emitted, also after B was split by a suspension
\* point; for a block that was never split blockExits[B] = blockEntries[B].
C3_BlockExitsHoldTerminator ==
    Started =>
        \A b \in 1..NumBlocks :
            /\ lTermAt[b] # 0 => lExits[b] = lTermAt[b]
            /\ ~WasSplit(b) => lExits[b] = lEntries[b]

\* C4 (as claimed): a phi has no incoming edges while the blocks are
\* lowered; once the function is emitted it has one incoming edge per SSA
\* predecessor, in predecessor order, whose block is blockExits[pred], the
\* block pred is left from, and not blockEntries[pred] when pred was split.
C4_PhiEdgesFromExits ==
    /\ lPhase = "blocks" => \A k \in 1..Len(lPhis) : lPhis[k].incoming = <<>>
    /\ lPhase = "done" =>
          \A k \in 1..Len(lPhis) :
              LET preds == Preds(lFn.shape, lPhis[k].block)
                  inc == lPhis[k].incoming
              IN /\ Len(inc) = Len(preds)
                 /\ \A i \in 1..Len(preds) :
                       /\ inc[i] = lExits[preds[i]]
                       /\ inc[i] = lTermAt[preds[i]]
                       /\ WasSplit(preds[i]) => inc[i] # lEntries[preds[i]]

\* C5: a lowered blocking function contains exactly one call of coro.id,
\* exactly one of coro.begin, at least one of coro.suspend, and its suspend
\* block is coro.end(handle, 0) followed by the return of the task handle.
C5_CoroutineShape ==
    (lPhase = "done" /\ lFn.blocking) =>
        /\ CountCalls("llvm.coro.id") = 1
        /\ CountCalls("llvm.coro.begin") = 1
        /\ CountCalls("llvm.coro.suspend") >= 1
        /\ lSuspend \in 1..Len(lBlocks)
        /\ LET s == lBlocks[lSuspend].instrs
           IN /\ Len(s) = 2
              /\ s[1].op = "call" /\ s[1].fn = "llvm.coro.end"
              /\ s[1].args = <<"task.handle", "0">>
              /\ s[2].op = "ret" /\ s[2].args = <<"task.handle">>
              /\ CountCalls("llvm.coro.end") = 1

\* C5 witness: a lowered blocking function that never returns (an endless
\* loop around a time.Sleep): its only coro.suspend is the one of the sleep.
C5_Witness ==
    /\ lPhase = "done" /\ lFn.blocking
    /\ \A b \in 1..NumBlocks : lFn.shape[b].k # "return"
    /\ CountCalls("llvm.coro.suspend") = 1

\* C6: a call of a blocking callee in a blocking function is emitted as:
\* the call with the caller's task handle as parent, yieldToScheduler of the
\* returned handle, waitForAsyncCall of the caller's handle, a non-final
\* coro.suspend, and a switch that resumes on 0 in a new block in which the
\* lowering of the block continues.
C6_AsyncCallSequence ==
    Started =>
        \A b \in 1..NumBlocks : \A i \in 1..Len(lFn.body[b]) :
            (lFn.blocking /\ lFn.body[b][i] = "call.blocking" /\ IsLowered(b, i)) =>
                /\ Cardinality(BlocksOf(b, i)) = 1
                /\ \A k \in BlocksOf(b, i) :
                      LET c == Sel(k, b, i)
                      IN /\ Len(c) = 5
                         /\ c[1] = CallI("main.g", c[1].res, <<"task.handle", "a">>)
                         /\ c[1].res # ""
                         /\ c[2] = CallI("runtime.yieldToScheduler", "", <<c[1].res>>)
                         /\ c[3] = CallI("runtime.waitForAsyncCall", "", <<"task.handle">>)
                         /\ c[4] = CallI("llvm.coro.suspend", c[4].res, <<"none", "false">>)
                         /\ c[4].res \notin {"", c[1].res}
                         /\ c[5].op = "switch" /\ c[5].args = <<c[4].res>>
                         /\ SplitsInto(k, b, i, "task.callComplete")

\* C6 witness: a blocking call was lowered and the block's terminator was
\* then emitted in the resume block.
C6_Witness ==
    /\ lPhase = "done" /\ lFn.blocking
    /\ \E b \in 1..NumBlocks :
          /\ Len(lFn.body[b]) >= 1
          /\ lFn.body[b][Len(lFn.body[b])] = "call.blocking"
          /\ lBlocks[lTermAt[b]].name = "task.callComplete"

\* C7 (as claimed): go f(...) on a blocking f is the call of f with a null
\* parent followed by yieldToScheduler of the returned handle, with no
\* suspend of the spawning function; on a non-blocking f it is a plain
\* direct call with no yield.
C7_GoStatement ==
    Started =>
        \A b \in 1..NumBlocks : \A i \in 1..Len(lFn.body[b]) :
            (lFn.body[b][i] \in GoInstrs /\ IsLowered(b, i)) =>
                /\ Cardinality(BlocksOf(b, i)) = 1
                /\ \A k \in BlocksOf(b, i) :
                      LET c == Sel(k, b, i)
                          f == Callee(lFn.body[b][i])
                      IN IF IsBlocking(f)
                         THEN /\ Len(c) = 2
                              /\ c[1] = CallI(f, c[1].res, <<"null", "a">>)
                              /\ c[2] = CallI("runtime.yieldToScheduler", "", <<c[1].res>>)
                         ELSE c = << CallI(f, c[1].res, <<"a">>) >>

\* C8: a call of time.Sleep(d) in a blocking function is emitted as
\* runtime.sleepTask(own task handle, d), a non-final coro.suspend and a
\* switch on its result: 0 continues in a new wakeup block, 1 goes to the
\* cleanup block, anything else to the suspend block; time.Sleep is not
\* called.
C8_SleepSequence ==
    Started =>
        \A b \in 1..NumBlocks : \A i \in 1..Len(lFn.body[b]) :
            (lFn.blocking /\ lFn.body[b][i] = "call.sleep" /\ IsLowered(b, i)) =>
                /\ Cardinality(BlocksOf(b, i)) = 1
                /\ \A k \in BlocksOf(b, i) :
                      LET c == Sel(k, b, i)
                      IN /\ Len(c) = 3
                         /\ c[1] = CallI("runtime.sleepTask", "", <<"task.handle", "a">>)
                         /\ c[2] = CallI("llvm.coro.suspend", c[2].res, <<"none", "false">>)
                         /\ c[2].res # ""
                         /\ c[3].op = "switch" /\ c[3].args = <<c[2].res>>
                         /\ c[3].tgt[1] = lSuspend /\ c[3].tgt[3] = lCleanup
                         /\ c[3].tgt[2] \notin {0, lSuspend, lCleanup}
                         /\ SplitsInto(k, b, i, "task.wakeup")

\* C8 witness: two sleeps in one block, the second lowered in the wakeup
\* block of the first.
C8_Witness ==
    /\ lPhase = "done" /\ lFn.blocking
    /\ \E b \in 1..NumBlocks :
          /\ lFn.body[b] = <<"call.sleep", "call.sleep">>
          /\ lBlocks[lTermAt[b]].name = "task.wakeup"
          /\ lTermAt[b] # lEntries[b]

IsSuspend(x) == x.op = "call" /\ x.fn = "llvm.coro.suspend"

\* C26: in a blocking function every coro.suspend is followed by a switch
\* on its result whose default target is the suspend block and whose
\* case 1 is the cleanup block, with a case 0 exactly when the suspend is
\* not final; the cleanup block is coro.free, runtime.free,
\* yieldToScheduler of the parent task, once each and in this order, and
\* then the branch to the suspend block.
C26_SuspendSwitchAndCleanup ==
    (Started /\ lFn.blocking) =>
        /\ \A k \in 1..Len(lBlocks) : \A j \in 1..Len(lBlocks[k].instrs) :
              LET c == lBlocks[k].instrs
              IN IsSuspend(c[j]) =>
                    /\ j < Len(c)
                    /\ c[j + 1].op = "switch"
                    /\ c[j + 1].args = <<c[j].res>>
                    /\ c[j + 1].tgt[1] = lSuspend
                    /\ c[j + 1].tgt[3] = lCleanup
                    /\ (c[j].args[2] = "true") <=> (c[j + 1].tgt[2] = 0)
        /\ lCleanup # lSuspend
        /\ LET c == lBlocks[lCleanup].instrs
           IN /\ Len(c) = 4
              /\ c[1].op = "call" /\ c[1].fn = "llvm.coro.free"
              /\ c[2].op = "call" /\ c[2].fn = "runtime.free" /\ c[2].args = <<c[1].res>>
              /\ c[3].op = "call" /\ c[3].fn = "runtime.yieldToScheduler"
              /\ c[3].args = <<"parent">>
              /\ c[4].op = "br" /\ c[4].tgt = <<lSuspend>>
        /\ CountCalls("llvm.coro.free") = 1
        /\ CountCalls("runtime.free") = 1

\* A lowered blocking function with a final suspend of its return and a
\* suspend of a sleep that resumes.
C26_Witness ==
    /\ lPhase = "done" /\ lFn.blocking
    /\ \E k, m \in 1..Len(lBlocks) :
          /\ \E j \in 1..Len(lBlocks[k].instrs) :
                IsSuspend(lBlocks[k].instrs[j]) /\ lBlocks[k].instrs[j].args[2] = "true"
          /\ \E j \in 1..Len(lBlocks[m].instrs) :
                IsSuspend(lBlocks[m].instrs[j]) /\ lBlocks[m].instrs[j].args[2] = "false"

----------------------------------------------------------------------------
(* SpecBounds: the operands of the index and slice expressions.            *)

\* An LLVM integer value: a constant of width w and value v, or the result
\* n of an instruction (w = 0: the nil llvm.Value).
Val(c, v, w, n) == [c |-> c, v |-> v, w |-> w, n |-> n]
ConstInt(w, v) == Val(TRUE, v, w, "")
Reg(w, n) == Val(FALSE, 0, w, n)
Nil == Val(FALSE, 0, 0, "nil")

\* c.intType
IntWidth == 32
\* c.lenType: the pointer width on targets with pointers under 4 bytes
LenWidth(ptrSize) == IF ptrSize < 4 THEN ptrSize * 8 ELSE 32
PointerSizes == {2, 4}

Pow2(w) == 2 ^ w
\* The value of a w-bit constant v read as unsigned / as signed.  The
\* constants of the model are small: from 31 bits on, reading one as signed
\* gives the constant itself, and only narrower ones are zero-extended.
ZExtValue(v, w) == IF w > 30 THEN v ELSE v % Pow2(w)
SExtValue(v, w) ==
    IF w > 30 THEN v
    ELSE IF ZExtValue(v, w) >= Pow2(w - 1) THEN ZExtValue(v, w) - Pow2(w) ELSE ZExtValue(v, w)

\* expr.Index with its Go type: constants in and out of range of the array,
\* and variables of the widths of int8/uint8, int, int64.
Indices ==
    {[v |-> ConstInt(IntWidth, ArrayLen - 1), signed |-> TRUE],
     [v |-> ConstInt(IntWidth, ArrayLen), signed |-> TRUE],
     [v |-> Reg(8, "%i"), signed |-> TRUE],
     [v |-> Reg(8, "%i"), signed |-> FALSE],
     [v |-> Reg(32, "%i"), signed |-> TRUE],
     [v |-> Reg(64, "%i"), signed |-> TRUE]}

\* expr.Low and expr.High of a slice expression (Nil: absent), of the
\* widths of int and int64.
SliceOperands ==
    {<<Nil, Nil>>,
     <<Reg(32, "%lo"), Nil>>,
     <<Nil, Reg(32, "%hi")>>,
     <<Reg(64, "%lo"), Reg(32, "%hi")>>,
     <<Reg(32, "%lo"), Reg(64, "%hi")>>}

IndexKinds == {"Index", "IndexAddr.array", "IndexAddr.slice", "Lookup"}
SliceKinds == {"Slice.array", "Slice.slice", "Slice.string"}

IndexExprs ==
    {[kind |-> k, index |-> i.v, signed |-> i.signed, low |-> Nil, high |-> Nil, max |-> FALSE] :
        k \in IndexKinds, i \in Indices}

SliceExprs ==
    {[kind |-> k, index |-> Nil, signed |-> TRUE, low |-> lh[1], high |-> lh[2], max |-> m] :
        k \in SliceKinds, lh \in SliceOperands, m \in BOOLEAN}

----------------------------------------------------------------------------
(* SpecBounds: the emitted instructions.                                   *)

\* An emitted instruction; site is the expression it was emitted for.
BI(op, fn, args) == [op |-> op, fn |-> fn, args |-> args, site |-> 0]
RuntimeCall(fn, args) == BI("call", "runtime." \o fn, args)

\* emitBoundsCheck: the index after the extension to the length type.
ExtendedIndex(arrayLen, index, signed) ==
    IF index.w < arrayLen.w
    THEN IF index.c
         THEN ConstInt(arrayLen.w, IF signed THEN ZExtValue(index.v, index.w)
                                             ELSE SExtValue(index.v, index.w))
         ELSE Reg(arrayLen.w, "%ext")
    ELSE index

\* (mutant of TrivialCase: every constant index is taken to be in range)
TrivialCaseAnyConstant(arrayLen, index) ==
    index.c

\* emitBoundsCheck: index and length are constants and the index is in
\* range.
TrivialCase(arrayLen, index) ==
    /\ index.c /\ arrayLen.c
    /\ SExtValue(index.v, index.w) >= 0
    /\ SExtValue(index.v, index.w) < SExtValue(arrayLen.v, arrayLen.w)

emitBoundsCheck(noBounds, arrayLen, index, signed) ==
    IF noBounds THEN <<>>
    ELSE LET ext == ExtendedIndex(arrayLen, index, signed)
             extCode == IF index.w < arrayLen.w /\ ~index.c
                        THEN << BI(IF signed THEN "zext" ELSE "sext", "", <<index>>) >>
                        ELSE <<>>
         IN extCode \o
            (IF TrivialCase(arrayLen, ext) THEN <<>>
             ELSE IF ext.w > IntWidth
                  THEN << RuntimeCall("lookupBoundsCheckLong", <<arrayLen, ext>>) >>
                  ELSE << RuntimeCall("lookupBoundsCheck", <<arrayLen, ext>>) >>)

\* emitSliceBoundsCheck: an operand sign-extended to 64 bits.
SExt64(x, n) == IF x.w < 64 THEN (IF x.c THEN ConstInt(64, x.v) ELSE Reg(64, n)) ELSE x
SExt64Code(x) == IF x.w < 64 /\ ~x.c THEN << BI("sext", "", <<x>>) >> ELSE <<>>

\* (mutant of emitSliceBoundsCheck: the regular helper for every width)
emitSliceBoundsCheckRegular(noBounds, capacity, low, high) ==
    IF noBounds THEN <<>>
    ELSE << RuntimeCall("sliceBoundsCheck", <<capacity, low, high>>) >>

emitSliceBoundsCheck(noBounds, capacity, low, high) ==
    IF noBounds THEN <<>>
    ELSE IF low.w > 32 \/ high.w > 32
         THEN SExt64Code(low) \o SExt64Code(high) \o
              << RuntimeCall("sliceBoundsCheckLong",
                             <<capacity, SExt64(low, "%lo.ext"), SExt64(high, "%hi.ext")>>) >>
         ELSE << RuntimeCall("sliceBoundsCheck", <<capacity, low, high>>) >>

\* parseBuiltin "len" of a string.
LenBuiltin(lenW) ==
    << BI("extractvalue", "len", <<Reg(0, "%x"), ConstInt(32, 1)>>) >> \o
    (IF lenW < IntWidth THEN << BI("zext", "len.int", <<Reg(lenW, "len")>>) >> ELSE <<>>)
LenBuiltinValue(lenW) == IF lenW < IntWidth THEN Reg(IntWidth, "len.int") ELSE Reg(lenW, "len")

\* The truncations of a slice expression to the length type.
TruncCode(x, lenW) == IF x.w > lenW THEN << BI("trunc", "", <<x>>) >> ELSE <<>>

\* parseExpr, *ssa.Index: an element of an array value.
IndexCode(e, noBounds, lenW) ==
    emitBoundsCheck(noBounds, ConstInt(lenW, ArrayLen), e.index, e.signed) \o
    << BI("alloca", "", <<>>),
       BI("store", "", <<Reg(0, "%x")>>),
       BI("getelementptr", "", <<ConstInt(32, 0), e.index>>),
       BI("load", "", <<>>) >>

\* parseExpr, *ssa.IndexAddr: the address of an element of an array behind
\* a pointer, or of a slice.
IndexAddrCode(e, noBounds, lenW) ==
    IF e.kind = "IndexAddr.array"
    THEN emitBoundsCheck(noBounds, ConstInt(lenW, ArrayLen), e.index, e.signed) \o
         << BI("getelementptr", "", <<ConstInt(32, 0), e.index>>) >>
    ELSE << BI("extractvalue", "indexaddr.ptr", <<Reg(0, "%x"), ConstInt(32, 0)>>),
            BI("extractvalue", "indexaddr.len", <<Reg(0, "%x"), ConstInt(32, 1)>>) >> \o
         emitBoundsCheck(noBounds, Reg(lenW, "indexaddr.len"), e.index, e.signed) \o
         << BI("getelementptr", "", <<e.index>>) >>

\* parseExpr, *ssa.Lookup on a string: a byte of the string.
LookupCode(e, noBounds, lenW) ==
    LenBuiltin(lenW) \o
    emitBoundsCheck(noBounds, LenBuiltinValue(lenW), e.index, e.signed) \o
    << BI("extractvalue", "", <<Reg(0, "%x"), ConstInt(32, 0)>>),
       BI("getelementptr", "", <<e.index>>),
       BI("load", "", <<>>) >>

\* parseExpr, *ssa.Slice without max.
SliceCode(e, noBounds, lenW) ==
    LET low == IF e.low = Nil THEN ConstInt(IntWidth, 0) ELSE e.low
    IN CASE e.kind = "Slice.array" ->
              LET high == IF e.high = Nil THEN ConstInt(IntWidth, ArrayLen) ELSE e.high
                  lw == IF low.w > high.w THEN low.w ELSE high.w
              IN << BI("getelementptr", "slice.ptr", <<ConstInt(32, 0), low>>),
                    BI("sub", "slice.len", <<high, low>>),
                    BI("sub", "slice.cap", <<ConstInt(IntWidth, ArrayLen), low>>) >> \o
                 emitSliceBoundsCheck(noBounds, ConstInt(lenW, ArrayLen), low, high) \o
                 (IF lw > lenW
                  THEN << BI("trunc", "", <<Reg(lw, "slice.len")>>),
                          BI("trunc", "", <<Reg(lw, "slice.cap")>>) >>
                  ELSE <<>>) \o
                 << BI("insertvalue", "", <<ConstInt(32, 0)>>),
                    BI("insertvalue", "", <<ConstInt(32, 1)>>),
                    BI("insertvalue", "", <<ConstInt(32, 2)>>) >>
         [] e.kind = "Slice.slice" ->
              LET high == IF e.high = Nil THEN Reg(lenW, "%oldLen") ELSE e.high
              IN << BI("extractvalue", "", <<Reg(0, "%x"), ConstInt(32, 0)>>),
                    BI("extractvalue", "", <<Reg(0, "%x"), ConstInt(32, 1)>>),
                    BI("extractvalue", "", <<Reg(0, "%x"), ConstInt(32, 2)>>) >> \o
                 emitSliceBoundsCheck(noBounds, Reg(lenW, "%oldCap"), low, high) \o
                 TruncCode(low, lenW) \o TruncCode(high, lenW) \o
                 << BI("getelementptr", "", <<low>>),
                    BI("sub", "", <<high, low>>),
                    BI("sub", "", <<Reg(lenW, "%oldCap"), low>>),
                    BI("insertvalue", "", <<ConstInt(32, 0)>>),
                    BI("insertvalue", "", <<ConstInt(32, 1)>>),
                    BI("insertvalue", "", <<ConstInt(32, 2)>>) >>
         [] e.kind = "Slice.string" ->
              LET high == IF e.high = Nil THEN Reg(lenW, "%oldLen") ELSE e.high
              IN << BI("extractvalue", "", <<Reg(0, "%x"), ConstInt(32, 0)>>),
                    BI("extractvalue", "", <<Reg(0, "%x"), ConstInt(32, 1)>>) >> \o
                 emitSliceBoundsCheck(noBounds, Reg(lenW, "%oldLen"), low, high) \o
                 << BI("getelementptr", "", <<low>>),
                    BI("sub", "", <<high, low>>),
                    BI("insertvalue", "", <<ConstInt(32, 0)>>),
                    BI("insertvalue", "", <<ConstInt(32, 1)>>) >>

----------------------------------------------------------------------------
(* SpecBounds: parseExpr on the index and slice expressions of a function. *)

BoundsInit ==
    /\ bNoBounds \in BOOLEAN
    /\ bPtrSize \in PointerSizes
    /\ bExprs = <<>>
    /\ bCode = <<>>
    /\ bPhase = "lowering"

\* The code of an expression, tagged with its place in the function.
AtSite(code, s) == [j \in 1..Len(code) |-> [code[j] EXCEPT !.site = s]]

Emit(e, code) ==
    /\ bPhase = "lowering"
    /\ Len(bExprs) < MaxExprs
    /\ bExprs' = Append(bExprs, e)
    /\ bCode' = bCode \o AtSite(code, Len(bExprs) + 1)
    /\ UNCHANGED <<bNoBounds, bPtrSize, bPhase>>

ParseIndex ==
    \E e \in IndexExprs :
        /\ e.kind = "Index"
        /\ Emit(e, IndexCode(e, bNoBounds, LenWidth(bPtrSize)))

ParseIndexAddr ==
    \E e \in IndexExprs :
        /\ e.kind \in {"IndexAddr.array", "IndexAddr.slice"}
        /\ Emit(e, IndexAddrCode(e, bNoBounds, LenWidth(bPtrSize)))

ParseLookup ==
    \E e \in IndexExprs :
        /\ e.kind = "Lookup"
        /\ Emit(e, LookupCode(e, bNoBounds, LenWidth(bPtrSize)))

ParseSlice ==
    \E e \in SliceExprs :
        /\ ~e.max
        /\ Emit(e, SliceCode(e, bNoBounds, LenWidth(bPtrSize)))

\* A full slice expression: parseExpr returns an error before emitting code.
ParseSliceMax ==
    \E e \in SliceExprs :
        /\ e.max
        /\ bPhase = "lowering"
        /\ Len(bExprs) < MaxExprs
        /\ bPhase' = "error"
        /\ UNCHANGED <<bNoBounds, bPtrSize, bExprs, bCode>>

\* The end of the function body.
BoundsFuncDone ==
    /\ bPhase = "lowering"
    /\ bPhase' = "done"
    /\ UNCHANGED <<bNoBounds, bPtrSize, bExprs, bCode>>

BoundsNext ==
    \/ ParseIndex /\ UNCHANGED notBounds
    \/ ParseIndexAddr /\ UNCHANGED notBounds
    \/ ParseLookup /\ UNCHANGED notBounds
    \/ ParseSlice /\ UNCHANGED notBounds
    \/ ParseSliceMax /\ UNCHANGED notBounds
    \/ BoundsFuncDone /\ UNCHANGED notBounds

InitBounds == BoundsInit /\ DeferIdle /\ LowerIdle /\ TypesIdle /\ DeclIdle /\ DriverIdle /\ ErrIdle /\ I64Idle /\ MainIdle /\ ShiftIdle /\ I2CIdle /\ StrIdle /\ MapIdle /\ ThunkIdle /\ ClosureIdle /\ IterIdle /\ Utf8Idle /\ PutcharIdle

SpecBounds == InitBounds /\ [][BoundsNext]_vars

----------------------------------------------------------------------------
(* SpecBounds: the claims.                                                 *)

SiteCode(s) == SelectSeq(bCode, LAMBDA x : x.site = s)

\* The bounds-check helpers of an expression kind.
Helpers(kind) ==
    IF kind \in IndexKinds
    THEN {"runtime.lookupBoundsCheck", "runtime.lookupBoundsCheckLong"}
    ELSE {"runtime.sliceBoundsCheck", "runtime.sliceBoundsCheckLong"}

IsCheck(kind, x) == x.op = "call" /\ x.fn \in Helpers(kind)

\* The instruction that reads the element, or that yields the element
\* address or the slice value handed to the rest of the function.
IsAccess(kind, x) ==
    CASE kind \in {"Index", "Lookup"} -> x.op = "load"
      [] kind \in {"IndexAddr.array", "IndexAddr.slice"} -> x.op = "getelementptr"
      [] OTHER -> x.op = "insertvalue"

\* A check call of the kind's helper precedes every access of the site.
CheckedBeforeAccess(s) ==
    LET code == SiteCode(s)
        kind == bExprs[s].kind
    IN \E j \in 1..Len(code) :
          /\ IsCheck(kind, code[j])
          /\ \A k \in 1..Len(code) : IsAccess(kind, code[k]) => j < k

\* The index is a constant within a constant length.
ConstantInRange(e) ==
    /\ e.kind \in {"Index", "IndexAddr.array"}
    /\ e.index.c
    /\ e.index.v >= 0 /\ e.index.v < ArrayLen

\* The helper an expression calls: the Long one for operands over 32 bits.
HelperOf(e) ==
    IF e.kind \in IndexKinds
    THEN IF e.index.w > 32 THEN "runtime.lookupBoundsCheckLong" ELSE "runtime.lookupBoundsCheck"
    ELSE IF e.low.w > 32 \/ e.high.w > 32 THEN "runtime.sliceBoundsCheckLong"
         ELSE "runtime.sliceBoundsCheck"

NumChecks(s) == Len(SelectSeq(SiteCode(s), LAMBDA x : IsCheck(bExprs[s].kind, x)))

IndexWiderThanInt(e) ==
    IF e.kind \in IndexKinds THEN e.index.w > IntWidth
    ELSE e.low.w > IntWidth \/ e.high.w > IntWidth

LongHelpers == {"runtime.lookupBoundsCheckLong", "runtime.sliceBoundsCheckLong"}

\* C19: a bounds check is a call of the Long helper of its kind exactly
\* when the type of the index is wider than the platform integer, and a
\* call of the regular helper otherwise.
C19_LongVariantForWideIndex ==
    \A s \in 1..Len(bExprs) :
        \A j \in 1..Len(SiteCode(s)) :
            IsCheck(bExprs[s].kind, SiteCode(s)[j]) =>
                (SiteCode(s)[j].fn \in LongHelpers <=> IndexWiderThanInt(bExprs[s]))

\* A function with a slice expression of a 64-bit operand checked by the
\* Long helper and an index of the width of int checked by the regular one.
C19_Witness ==
    /\ bPhase = "done"
    /\ \E s, t \in 1..Len(bExprs) :
          /\ bExprs[s].kind \notin IndexKinds /\ IndexWiderThanInt(bExprs[s])
          /\ \E j \in 1..Len(SiteCode(s)) : SiteCode(s)[j].fn = "runtime.sliceBoundsCheckLong"
          /\ bExprs[t].kind \in IndexKinds /\ ~IndexWiderThanInt(bExprs[t])
          /\ \E j \in 1..Len(SiteCode(t)) : SiteCode(t)[j].fn = "runtime.lookupBoundsCheck"

\* The bit patterns of an 8-bit index the widening is tried on.
SampleBytes == {0, 1, 127, 128, 255}

\* The number a Go index of w bits stands for, and the number the widened
\* value stands for after the extension instruction op.
GoValue(bits, w, signed) == IF signed THEN SExtValue(bits, w) ELSE ZExtValue(bits, w)
WidenedValue(op, bits, w) == IF op = "sext" THEN SExtValue(bits, w) ELSE ZExtValue(bits, w)

\* The instructions of a site that widen the index of the expression.
IsWidening(s, x) ==
    /\ bExprs[s].kind \in IndexKinds
    /\ x.op \in {"zext", "sext"}
    /\ x.args = <<bExprs[s].index>>

\* C21 (as claimed): an index narrower than the length type is widened to
\* it before the bounds check so that the number it stands for is kept: by
\* a zero extension when the type of the index is unsigned and by a sign
\* extension when it is signed.
C21_IndexWidenedKeepingValue ==
    \A s \in 1..Len(bExprs) :
        \A j \in 1..Len(SiteCode(s)) :
            IsWidening(s, SiteCode(s)[j]) =>
                /\ SiteCode(s)[j].op = (IF bExprs[s].signed THEN "sext" ELSE "zext")
                /\ \A bits \in SampleBytes :
                      WidenedValue(SiteCode(s)[j].op, bits, bExprs[s].index.w)
                          = GoValue(bits, bExprs[s].index.w, bExprs[s].signed)

----------------------------------------------------------------------------
(* SpecTypes: the named types of the program (c.ir.NamedTypes).            *)

\* The i-th named type is called TypeName(i).
TypeName(i) == "main.T" \o ToString(i)

\* The type of a struct field: a basic type, a named type of the program
\* (by its place in NamedTypes; MaxTypes + 1: a named struct that is not in
\* NamedTypes), or a type getLLVMType has no case for.
FT(k, n) == [k |-> k, n |-> n]
FieldTypes == {FT("int", 0), FT("chan", 0)} \cup {FT("named", i) : i \in 1..(MaxTypes + 1)}

\* A named type: a struct with its fields, or a named non-struct type.
NamedTypeDecls ==
    {[struct |-> FALSE, fields |-> <<>>]} \cup
    {[struct |-> TRUE, fields |-> <<>>]} \cup
    {[struct |-> TRUE, fields |-> <<f>>] : f \in FieldTypes} \cup
    {[struct |-> TRUE, fields |-> <<FT("int", 0), f>>] : f \in FieldTypes}

NamedTypeLists == UNION {[1..n -> NamedTypeDecls] : n \in 0..MaxTypes}

----------------------------------------------------------------------------
(* SpecTypes: Compile, the declaration and definition of the named structs.*)

\* The test both loops apply to an entry of NamedTypes.
IsNamedStruct(t) == t.struct

\* getLLVMType of a field type: the LLVM type, or "" for an error.
FieldLLVMType(f) ==
    CASE f.k = "int" -> "i32"
      [] f.k = "chan" -> ""
      [] f.k = "named" /\ f.n \in 1..Len(tTypes) /\ ~tTypes[f.n].struct -> "i32"
      [] OTHER -> IF TypeName(f.n) \in tModule THEN "%" \o TypeName(f.n) ELSE ""

\* getLLVMType of a struct type: the element types, or an error.
StructLLVMType(t) == [i \in 1..Len(t.fields) |-> FieldLLVMType(t.fields[i])]
StructOk(t) == \A i \in 1..Len(t.fields) : FieldLLVMType(t.fields[i]) # ""

TypesInit ==
    /\ tTypes \in NamedTypeLists
    /\ tPhase = "declare"
    /\ tIdx = 1
    /\ tModule = {}
    /\ tLLVMType = [i \in 1..Len(tTypes) |-> ""]
    /\ tBody = <<>>

\* One round of the first loop: StructCreateNamed for a named struct.
DeclareType ==
    /\ tPhase = "declare"
    /\ tIdx <= Len(tTypes)
    /\ IF IsNamedStruct(tTypes[tIdx])
       THEN /\ tModule' = tModule \cup {TypeName(tIdx)}
            /\ tLLVMType' = [tLLVMType EXCEPT ![tIdx] = TypeName(tIdx)]
       ELSE UNCHANGED <<tModule, tLLVMType>>
    /\ tIdx' = tIdx + 1
    /\ UNCHANGED <<tTypes, tPhase, tBody>>

\* The first loop is over: the second one starts.
DeclareDone ==
    /\ tPhase = "declare"
    /\ tIdx > Len(tTypes)
    /\ tPhase' = "define"
    /\ tIdx' = 1
    /\ UNCHANGED <<tTypes, tModule, tLLVMType, tBody>>

\* (mutant of DefineCond: the second loop skips the last named type)
DefineCondSkipLast(i) ==
    IsNamedStruct(tTypes[i]) /\ i < Len(tTypes)

\* The second loop handles the i-th entry if it is a named struct.
DefineCond(i) ==
    IsNamedStruct(tTypes[i])

\* One round of the second loop: getLLVMType of the struct, then
\* StructSetBody; an error of getLLVMType ends Compile.
DefineType ==
    /\ tPhase = "define"
    /\ tIdx <= Len(tTypes)
    /\ IF DefineCond(tIdx)
       THEN IF StructOk(tTypes[tIdx])
            THEN /\ tBody' = Append(tBody, [type |-> tLLVMType[tIdx],
                                            elems |-> StructLLVMType(tTypes[tIdx])])
                 /\ tIdx' = tIdx + 1
                 /\ UNCHANGED tPhase
            ELSE /\ tPhase' = "error"
                 /\ UNCHANGED <<tBody, tIdx>>
       ELSE /\ tIdx' = tIdx + 1
            /\ UNCHANGED <<tBody, tPhase>>
    /\ UNCHANGED <<tTypes, tModule, tLLVMType>>

\* The second loop is over: Compile goes on with the globals and functions.
DefineDone ==
    /\ tPhase = "define"
    /\ tIdx > Len(tTypes)
    /\ tPhase' = "done"
    /\ UNCHANGED <<tTypes, tIdx, tModule, tLLVMType, tBody>>

TypesNext ==
    \/ DeclareType /\ UNCHANGED notTypes
    \/ DeclareDone /\ UNCHANGED notTypes
    \/ DefineType /\ UNCHANGED notTypes
    \/ DefineDone /\ UNCHANGED notTypes

InitTypes == TypesInit /\ DeferIdle /\ LowerIdle /\ BoundsIdle /\ DeclIdle /\ DriverIdle /\ ErrIdle /\ I64Idle /\ MainIdle /\ ShiftIdle /\ I2CIdle /\ StrIdle /\ MapIdle /\ ThunkIdle /\ ClosureIdle /\ IterIdle /\ Utf8Idle /\ PutcharIdle

SpecTypes == InitTypes /\ [][TypesNext]_vars

----------------------------------------------------------------------------
(* SpecTypes: the claims.                                                  *)

\* The named structs of the program.
NamedStructs == {TypeName(i) : i \in {j \in 1..Len(tTypes) : tTypes[j].struct}}

\* The named structs whose body was set, and how often.
Bodied == {tBody[j].type : j \in 1..Len(tBody)}
TimesSet(n) == Cardinality({j \in 1..Len(tBody) : tBody[j].type = n})

\* C10: every named struct is declared before the body of any named struct
\* is set, no body is set more than once, and when the definition loop has
\* run to its end the declared named structs are the named structs with a
\* body, each set exactly once.
C10_DeclaredThenDefinedOnce ==
    (tPhase # "idle") =>
        /\ tBody # <<>> => tModule = NamedStructs
        /\ \A n \in tModule : TimesSet(n) <= 1
        /\ Bodied \subseteq tModule
        /\ tPhase = "done" =>
              /\ Bodied = tModule
              /\ tModule = NamedStructs
              /\ \A n \in tModule : TimesSet(n) = 1

\* C10 witness: Compile got through both loops with two named structs, the
\* first of which has a field of the second, declared after it.
C10_Witness ==
    /\ tPhase = "done"
    /\ Len(tTypes) >= 2
    /\ tTypes[1].struct /\ tTypes[2].struct
    /\ \E i \in 1..Len(tTypes[1].fields) : tTypes[1].fields[i] = FT("named", 2)
    /\ Len(tBody) >= 2

----------------------------------------------------------------------------
(* SpecDecl: the SSA functions of the program (c.ir.Functions).            *)

\* Link names: two functions of the program may share one (a C function
\* or an exported name declared in more than one package).
LinkNames == {"main.f", "foo"}

\* The Go types of results and parameters ("chan": a type getLLVMType has
\* no case for).
ResultLists == {<<>>, <<"int">>, <<"int", "bool">>, <<"bool", "int", "int">>, <<"chan">>}
ParamLists == {<<>>, <<"int">>}

SsaFuncs ==
    [name : LinkNames, blocking : BOOLEAN, results : ResultLists, params : ParamLists]

FuncLists == UNION {[1..n -> SsaFuncs] : n \in 0..MaxFuncs}

----------------------------------------------------------------------------
(* SpecDecl: parseFuncDecl and the Return of parseInstr.                   *)

\* The marker of a failed call.
Error == "error"

\* getLLVMType of a basic type.
BasicLLVMType(t) ==
    CASE t = "int" -> "i32"
      [] t = "bool" -> "i1"
      [] OTHER -> Error

LLVMTypes(ts) == [i \in 1..Len(ts) |-> BasicLLVMType(ts[i])]
TypesOk(ts) == \A i \in 1..Len(ts) : BasicLLVMType(ts[i]) # Error

\* c.ctx.StructType: an anonymous struct of the element types.
RECURSIVE Join(_)
Join(ts) == IF ts = <<>> THEN "" ELSE IF Len(ts) = 1 THEN ts[1] ELSE ts[1] \o ", " \o Join(Tail(ts))
StructType(ts) == "{" \o Join(ts) \o "}"

\* (mutant of RetType: a single result is wrapped in a struct as well)
RetTypeAlwaysStruct(f) ==
    IF f.blocking
    THEN IF f.results # <<>> THEN Error ELSE "i8*"
    ELSE IF f.results = <<>> THEN "void"
    ELSE IF ~TypesOk(f.results) THEN Error
    ELSE StructType(LLVMTypes(f.results))

\* (mutant of RetType: a blocking function with results gets the task handle type)
RetTypeBlockingAny(f) ==
    IF f.blocking THEN "i8*"
    ELSE IF f.results = <<>> THEN "void"
    ELSE IF ~TypesOk(f.results) THEN Error
    ELSE IF Len(f.results) = 1 THEN BasicLLVMType(f.results[1])
    ELSE StructType(LLVMTypes(f.results))

\* parseFuncDecl: the return type of the declaration, or an error.
RetType(f) ==
    IF f.blocking
    THEN IF f.results # <<>> THEN Error ELSE "i8*"
    ELSE IF f.results = <<>> THEN "void"
    ELSE IF ~TypesOk(f.results) THEN Error
    ELSE IF Len(f.results) = 1 THEN BasicLLVMType(f.results[1])
    ELSE StructType(LLVMTypes(f.results))

\* parseFuncDecl: the parameter types, the parent task first in a blocking
\* function.
ParamTypes(f) == (IF f.blocking THEN <<"i8*">> ELSE <<>>) \o LLVMTypes(f.params)

\* llvm.FunctionType(retType, paramTypes, false)
FnType(f) == [ret |-> RetType(f), params |-> ParamTypes(f)]

\* c.mod.NamedFunction: the place of the function in the module, 0 if none.
NamedFunction(mod, name) ==
    IF \E k \in 1..Len(mod) : mod[k].name = name
    THEN CHOOSE k \in 1..Len(mod) : mod[k].name = name
    ELSE 0

DeclInit ==
    /\ fFuncs \in FuncLists
    /\ fPhase = "declare"
    /\ fIdx = 1
    /\ fModule = <<>>
    /\ fLLVMFn = [i \in 1..Len(fFuncs) |-> 0]
    /\ fCode = [i \in 1..Len(fFuncs) |-> <<>>]

\* One round of the loop declaring the functions: parseFuncDecl.  An error
\* ends Compile; an existing function of the name is taken as it is.
ParseFuncDecl ==
    /\ fPhase = "declare"
    /\ fIdx <= Len(fFuncs)
    /\ LET f == fFuncs[fIdx]
       IN IF RetType(f) = Error \/ ~TypesOk(f.params)
          THEN /\ fPhase' = Error
               /\ UNCHANGED <<fModule, fLLVMFn, fIdx>>
          ELSE /\ IF NamedFunction(fModule, f.name) = 0
                  THEN /\ fModule' = Append(fModule, [name |-> f.name, ret |-> FnType(f).ret,
                                                      params |-> FnType(f).params])
                       /\ fLLVMFn' = [fLLVMFn EXCEPT ![fIdx] = Len(fModule) + 1]
                  ELSE /\ fLLVMFn' = [fLLVMFn EXCEPT ![fIdx] = NamedFunction(fModule, f.name)]
                       /\ UNCHANGED fModule
               /\ fIdx' = fIdx + 1
               /\ UNCHANGED fPhase
    /\ UNCHANGED <<fFuncs, fCode>>

\* All functions are declared: the bodies follow.
DeclareFuncsDone ==
    /\ fPhase = "declare"
    /\ fIdx > Len(fFuncs)
    /\ fPhase' = "define"
    /\ fIdx' = 1
    /\ UNCHANGED <<fFuncs, fModule, fLLVMFn, fCode>>

\* An emitted instruction of a Return.
RI(op, args) == [op |-> op, args |-> args]

\* The insertvalue chain packing the results into the struct.
PackCode(results) ==
    [i \in 1..Len(results) |-> RI("insertvalue", <<"%r" \o ToString(i - 1), ToString(i - 1)>>)]

\* parseInstr, *ssa.Return: a Return with results in a blocking function
\* is an error.
ReturnFails(blocking, results) == blocking /\ Len(results) # 0

\* parseInstr, *ssa.Return: the code.  retType is the return type of
\* frame.fn.LLVMFn, whose zero value the results are packed into.
ReturnCode(blocking, results, retType) ==
    IF blocking
    THEN << RI("call llvm.coro.suspend", <<"none", "true">>),
            RI("switch", <<"task.suspend", "1: task.cleanup">>) >>
    ELSE IF Len(results) = 0 THEN << RI("ret void", <<>>) >>
    ELSE IF Len(results) = 1 THEN << RI("ret", <<"%r0">>) >>
    ELSE << RI("zero", <<retType>>) >> \o PackCode(results) \o << RI("ret", <<"%packed">>) >>

\* One round of the loop adding the definitions: the Return of the
\* function, whose results are those of its signature.
ParseFuncReturn ==
    /\ fPhase = "define"
    /\ fIdx <= Len(fFuncs)
    /\ LET f == fFuncs[fIdx]
       IN IF ReturnFails(f.blocking, f.results)
          THEN /\ fPhase' = Error
               /\ UNCHANGED <<fCode, fIdx>>
          ELSE /\ fCode' = [fCode EXCEPT ![fIdx] =
                                ReturnCode(f.blocking, f.results, fModule[fLLVMFn[fIdx]].ret)]
               /\ fIdx' = fIdx + 1
               /\ UNCHANGED fPhase
    /\ UNCHANGED <<fFuncs, fModule, fLLVMFn>>

DefineFuncsDone ==
    /\ fPhase = "define"
    /\ fIdx > Len(fFuncs)
    /\ fPhase' = "done"
    /\ UNCHANGED <<fFuncs, fIdx, fModule, fLLVMFn, fCode>>

DeclNext ==
    \/ ParseFuncDecl /\ UNCHANGED notDecl
    \/ DeclareFuncsDone /\ UNCHANGED notDecl
    \/ ParseFuncReturn /\ UNCHANGED notDecl
    \/ DefineFuncsDone /\ UNCHANGED notDecl

InitDecl == DeclInit /\ DeferIdle /\ LowerIdle /\ BoundsIdle /\ TypesIdle /\ DriverIdle /\ ErrIdle /\ I64Idle /\ MainIdle /\ ShiftIdle /\ I2CIdle /\ StrIdle /\ MapIdle /\ ThunkIdle /\ ClosureIdle /\ IterIdle /\ Utf8Idle /\ PutcharIdle

SpecDecl == InitDecl /\ [][DeclNext]_vars

----------------------------------------------------------------------------
(* SpecDecl: the claims.                                                   *)

\* The function i has been through parseFuncDecl without an error.
Declared(i) ==
    /\ i \in 1..Len(fFuncs)
    /\ \/ fPhase \in {"define", "done"}
       \/ fPhase \in {"declare", Error} /\ i < fIdx
       \/ fPhase = Error /\ fLLVMFn[i] # 0

\* The module functions of a name.
WithName(n) == {k \in 1..Len(fModule) : fModule[k].name = n}

\* No earlier function of the program has the link name of function i.
FirstOfName(i) == \A j \in 1..(i - 1) : fFuncs[j].name # fFuncs[i].name

\* C11 (as claimed): once the functions are declared the module has exactly
\* one function per link name of an SSA function, and it has the signature
\* parseFuncDecl computes for that SSA function, also when a function of the
\* name was in the module already.
C11_OneFunctionWithComputedSignature ==
    fPhase \in {"define", "done"} =>
        \A i \in 1..Len(fFuncs) :
            /\ Cardinality(WithName(fFuncs[i].name)) = 1
            /\ fLLVMFn[i] \in WithName(fFuncs[i].name)
            /\ fModule[fLLVMFn[i]].ret = FnType(fFuncs[i]).ret
            /\ fModule[fLLVMFn[i]].params = FnType(fFuncs[i]).params

\* parseFuncDecl has just failed on a blocking function with results.
BlockingResultRejected ==
    /\ fPhase = Error
    /\ fIdx \in 1..Len(fFuncs)
    /\ fLLVMFn[fIdx] = 0
    /\ fFuncs[fIdx].blocking /\ fFuncs[fIdx].results # <<>>

OpsOf(code, op) == SelectSeq(code, LAMBDA x : x.op = op)

----------------------------------------------------------------------------
(* SpecDriver: the driver's Compile (main.go).                             *)

\* Target triples, as the characters of their first component.
Wasm32 == <<"w", "a", "s", "m", "3", "2">>
Avr == <<"a", "v", "r">>
Armv6m == <<"a", "r", "m", "v", "6", "m">>
Triples == {Wasm32, Avr, Armv6m}

\* strings.HasPrefix
HasPrefix(s, prefix) == Len(s) >= Len(prefix) /\ SubSeq(s, 1, Len(prefix)) = prefix

\* config.opt: a known level and an unknown one.
OptLevels == {"z", "9"}

BuildSpecs == [triple : Triples, initInterp : BOOLEAN, opt : OptLevels]

DriverInit ==
    /\ vSpec \in BuildSpecs
    /\ vPc = "compile"
    /\ vTrace = <<>>
    /\ vResult = ""
    /\ vOutput = FALSE

Ev(ev, ok) == [ev |-> ev, ok |-> ok]

\* A phase that can fail with its own error: the driver returns it.
Phase(pc, ev, next) ==
    /\ vPc = pc
    /\ \E ok \in BOOLEAN :
          /\ vTrace' = Append(vTrace, Ev(ev, ok))
          /\ IF ok THEN vPc' = next /\ vResult' = vResult
                   ELSE vPc' = "end" /\ vResult' = "error of " \o ev
    /\ UNCHANGED <<vSpec, vOutput>>

\* A pass that returns nothing.
Pass(pc, ev, next) ==
    /\ vPc = pc
    /\ vTrace' = Append(vTrace, Ev(ev, TRUE))
    /\ vPc' = next
    /\ UNCHANGED <<vSpec, vResult, vOutput>>

\* (mutant of VerifyOutcome: a failed verification is ignored)
VerifyOutcomeIgnored(ok, msg, next) ==
    [pc |-> next, result |-> ""]

\* if err := c.Verify(); err != nil { return errors.New(msg) }
VerifyOutcome(ok, msg, next) ==
    IF ok THEN [pc |-> next, result |-> ""]
          ELSE [pc |-> "end", result |-> msg]

Verify(pc, msg, next) ==
    /\ vPc = pc
    /\ \E ok \in BOOLEAN :
          /\ vTrace' = Append(vTrace, Ev("verify: " \o msg, ok))
          /\ vPc' = VerifyOutcome(ok, msg, next).pc
          /\ vResult' = VerifyOutcome(ok, msg, next).result
    /\ UNCHANGED <<vSpec, vOutput>>

AfterIR == "verification error after IR construction"
AfterInterp == "verification error after interpreting runtime.initAll"
AfterSections == "verification error after applying function sections"
AfterWasm == "verification error after running the wasm i64 hack"
AfterOpt == "verification failure after LLVM optimization passes"
AfterAvr == "verification error after making all globals non-constant on AVR"

\* c.Compile(pkgName)
CompileIR == Phase("compile", "Compile", "verifyIR")
VerifyIR ==
    Verify("verifyIR", AfterIR, IF vSpec.initInterp THEN "interp" ELSE "sections")

\* interp.Run, with config.initInterp only
InterpRun == Phase("interp", "interp.Run", "verifyInterp")
VerifyInterp == Verify("verifyInterp", AfterInterp, "sections")

ApplyFunctionSections == Pass("sections", "ApplyFunctionSections", "verifySections")
VerifySections ==
    Verify("verifySections", AfterSections,
           IF HasPrefix(vSpec.triple, <<"w", "a", "s", "m">>) THEN "wasm" ELSE "opt")

ExternalInt64AsPtr == Pass("wasm", "ExternalInt64AsPtr", "verifyWasm")
VerifyWasm == Verify("verifyWasm", AfterWasm, "opt")

\* c.Optimize, or the error of an unknown level
Optimize ==
    /\ vPc = "opt"
    /\ IF vSpec.opt \in {"none:", "0", "1", "2", "s", "z"}
       THEN Phase("opt", "Optimize", "verifyOpt")
       ELSE /\ vPc' = "end"
            /\ vResult' = "unknown optimization level: -opt=" \o vSpec.opt
            /\ UNCHANGED <<vSpec, vTrace, vOutput>>
VerifyOpt ==
    Verify("verifyOpt", AfterOpt,
           IF HasPrefix(vSpec.triple, <<"a", "v", "r">>) THEN "avr" ELSE "emit")

NonConstGlobals == Pass("avr", "NonConstGlobals", "verifyAvr")
VerifyAvr == Verify("verifyAvr", AfterAvr, "emit")

\* The output: the object, bitcode or text file, or the linked program.
EmitOutput ==
    /\ vPc = "emit"
    /\ \E ok \in BOOLEAN :
          /\ vTrace' = Append(vTrace, Ev("Emit", ok))
          /\ vOutput' = ok
          /\ vResult' = IF ok THEN "ok" ELSE "error of Emit"
    /\ vPc' = "end"
    /\ UNCHANGED vSpec

DriverNext ==
    \/ CompileIR /\ UNCHANGED notDriver
    \/ VerifyIR /\ UNCHANGED notDriver
    \/ InterpRun /\ UNCHANGED notDriver
    \/ VerifyInterp /\ UNCHANGED notDriver
    \/ ApplyFunctionSections /\ UNCHANGED notDriver
    \/ VerifySections /\ UNCHANGED notDriver
    \/ ExternalInt64AsPtr /\ UNCHANGED notDriver
    \/ VerifyWasm /\ UNCHANGED notDriver
    \/ Optimize /\ UNCHANGED notDriver
    \/ VerifyOpt /\ UNCHANGED notDriver
    \/ NonConstGlobals /\ UNCHANGED notDriver
    \/ VerifyAvr /\ UNCHANGED notDriver
    \/ EmitOutput /\ UNCHANGED notDriver

InitDriver == DriverInit /\ DeferIdle /\ LowerIdle /\ BoundsIdle /\ TypesIdle /\ DeclIdle /\ ErrIdle /\ I64Idle /\ MainIdle /\ ShiftIdle /\ I2CIdle /\ StrIdle /\ MapIdle /\ ThunkIdle /\ ClosureIdle /\ IterIdle /\ Utf8Idle /\ PutcharIdle

SpecDriver == InitDriver /\ [][DriverNext]_vars

----------------------------------------------------------------------------
(* SpecDriver: the claims.                                                 *)

\* The places of an event in the trace.
At(ev) == {k \in 1..Len(vTrace) : vTrace[k].ev = ev}

\* The phase ev, when it ran without error and the driver went on, is
\* followed at once by the verification reported with msg.
VerifiedNext(ev, msg) ==
    \A k \in At(ev) :
        (vTrace[k].ok /\ (k < Len(vTrace) \/ vPc = "end")) =>
            /\ k < Len(vTrace)
            /\ vTrace[k + 1].ev = "verify: " \o msg

\* The four verifications of the claim.
ClaimedVerifications == {AfterIR, AfterWasm, AfterOpt, AfterAvr}

\* C12: the driver verifies the module right after IR construction, after
\* the wasm i64 pass (run on wasm triples only), after the optimization and
\* after the non-const-globals pass (run on avr triples only); a failed
\* verification ends the run with the error naming its phase, no later
\* phase runs and no output is emitted.
C12_VerifyAfterEveryPhase ==
    (vPc # "idle") =>
        /\ VerifiedNext("Compile", AfterIR)
        /\ VerifiedNext("ExternalInt64AsPtr", AfterWasm)
        /\ VerifiedNext("Optimize", AfterOpt)
        /\ VerifiedNext("NonConstGlobals", AfterAvr)
        /\ At("ExternalInt64AsPtr") # {} => vSpec.triple = Wasm32
        /\ At("NonConstGlobals") # {} => vSpec.triple = Avr
        /\ (At("Optimize") # {} /\ vSpec.triple = Wasm32) => At("ExternalInt64AsPtr") # {}
        /\ (At("Emit") # {} /\ vSpec.triple = Avr) => At("NonConstGlobals") # {}
        /\ \A msg \in ClaimedVerifications : \A k \in At("verify: " \o msg) :
              ~vTrace[k].ok =>
                  /\ k = Len(vTrace)
                  /\ vPc = "end"
                  /\ vResult = msg
                  /\ ~vOutput
        /\ vOutput =>
              /\ At("verify: " \o AfterIR) # {} /\ At("verify: " \o AfterOpt) # {}
              /\ \A k \in 1..Len(vTrace) : vTrace[k].ok

\* C12 witness: on a wasm triple the verification after the i64 pass
\* failed, after the one after IR construction had passed.
C12_Witness ==
    /\ vPc = "end"
    /\ vSpec.triple = Wasm32
    /\ vResult = AfterWasm
    /\ At("verify: " \o AfterIR) # {}
    /\ At("Optimize") = {}
    /\ ~vOutput

----------------------------------------------------------------------------
(* SpecErr: the errors of parseExpr, parseInstr and getInterpretedValue.   *)

\* The SSA values parseInstr hands to parseExpr and the interpreted values
\* parseGlobalInitializer hands to getInterpretedValue.
ExprKinds == {"BinOp", "Index", "IndexAddr", "Lookup", "MakeSlice", "Slice", "Range"}
ValueKinds == {"ArrayValue", "MapValue"}

\* The calls of an item that can return an error, in the order made.
Operands(kind) ==
    CASE kind = "BinOp" -> <<"X", "Y">>
      [] kind = "Index" -> <<"X", "Index">>
      [] kind = "IndexAddr" -> <<"X", "Index">>
      [] kind = "Lookup" -> <<"X", "Index">>
      [] kind = "MakeSlice" -> <<"Len", "Cap", "ElemType">>
      [] kind = "Slice" -> <<"X", "Low", "High">>
      [] kind = "Range" -> <<"ZeroValue">>
      [] kind = "ArrayValue" -> <<"Elem", "ElemType">>
      [] kind = "MapValue" -> <<"Bucket", "Key", "Value">>

\* An item: the call that fails (0: none) and what it fails with, an
\* ordinary error or ir.ErrCGoWrapper (raised by a CGo global operand).
Items ==
    {[kind |-> k, fail |-> 0, cause |-> "none"] : k \in ExprKinds \cup ValueKinds} \cup
    {[kind |-> k, fail |-> n, cause |-> "error"] :
        k \in ExprKinds \cup ValueKinds, n \in 1..3} \cup
    {[kind |-> k, fail |-> 1, cause |-> "cgo"] : k \in ExprKinds \ {"Range"}}

ValidItem(it) == it.fail <= Len(Operands(it.kind))

ErrProgs == UNION {[1..n -> {it \in Items : ValidItem(it)}] : n \in 0..MaxItems}

\* The failing calls answered with "return llvm.Value{}, nil".
Swallows(kind, operand) ==
    \/ kind = "Lookup" /\ operand \in {"X", "Index"}
    \/ kind = "MakeSlice" /\ operand \in {"Len", "Cap", "ElemType"}
    \/ kind = "Slice" /\ operand \in {"Low", "High"}
    \/ kind = "Range" /\ operand = "ZeroValue"
    \/ kind = "MapValue" /\ operand \in {"Key", "Value"}

\* parseExpr / getInterpretedValue: the returned value and error.
Result(it) ==
    IF it.fail = 0 THEN [value |-> "value", err |-> ""]
    ELSE IF Swallows(it.kind, Operands(it.kind)[it.fail]) THEN [value |-> "nil", err |-> ""]
    ELSE [value |-> "nil", err |-> it.cause]

ErrInit ==
    /\ eProg \in ErrProgs
    /\ eIdx = 1
    /\ eValues = <<>>
    /\ eErr = ""
    /\ ePhase = "run"

\* parseInstr on an ssa.Value: ErrCGoWrapper is ignored, the value is
\* stored in frame.locals and the error returned; Compile returns it.
ParseInstrValue ==
    /\ ePhase = "run"
    /\ eIdx <= Len(eProg)
    /\ eProg[eIdx].kind \in ExprKinds
    /\ LET r == Result(eProg[eIdx])
       IN IF r.err = "cgo"
          THEN /\ eIdx' = eIdx + 1
               /\ UNCHANGED <<eValues, eErr, ePhase>>
          ELSE /\ eValues' = Append(eValues, r.value)
               /\ IF r.err # ""
                  THEN /\ eErr' = r.err /\ ePhase' = "error" /\ UNCHANGED eIdx
                  ELSE /\ eIdx' = eIdx + 1 /\ UNCHANGED <<eErr, ePhase>>
    /\ UNCHANGED eProg

\* parseGlobalInitializer: the error is returned, else the value is set as
\* the initializer.
ParseGlobalInitializer ==
    /\ ePhase = "run"
    /\ eIdx <= Len(eProg)
    /\ eProg[eIdx].kind \in ValueKinds
    /\ LET r == Result(eProg[eIdx])
       IN IF r.err # ""
          THEN /\ eErr' = r.err /\ ePhase' = "error" /\ UNCHANGED <<eIdx, eValues>>
          ELSE /\ eValues' = Append(eValues, r.value)
               /\ eIdx' = eIdx + 1
               /\ UNCHANGED <<eErr, ePhase>>
    /\ UNCHANGED eProg

\* Compile returns nil.
CompileReturnsNil ==
    /\ ePhase = "run"
    /\ eIdx > Len(eProg)
    /\ ePhase' = "done"
    /\ UNCHANGED <<eProg, eIdx, eValues, eErr>>

ErrNext ==
    \/ ParseInstrValue /\ UNCHANGED notErr
    \/ ParseGlobalInitializer /\ UNCHANGED notErr
    \/ CompileReturnsNil /\ UNCHANGED notErr

InitErr == ErrInit /\ DeferIdle /\ LowerIdle /\ BoundsIdle /\ TypesIdle /\ DeclIdle /\ DriverIdle /\ I64Idle /\ MainIdle /\ ShiftIdle /\ I2CIdle /\ StrIdle /\ MapIdle /\ ThunkIdle /\ ClosureIdle /\ IterIdle /\ Utf8Idle /\ PutcharIdle

SpecErr == InitErr /\ [][ErrNext]_vars

----------------------------------------------------------------------------
(* SpecErr: the claims.                                                    *)

\* An ordinary error was raised while the item i was lowered.
Raised(i) == eProg[i].fail # 0 /\ eProg[i].cause = "error"

\* C13 (as claimed): an error raised while an instruction, an expression or
\* an interpreted initializer is lowered, the key or value of a map literal
\* and the operands of Lookup, MakeSlice, Slice and Range included, makes
\* Compile return a non-nil error at once; only ErrCGoWrapper is caught.
C13_EveryErrorAborts ==
    (ePhase # "idle") =>
        \A i \in 1..Len(eProg) :
            Raised(i) =>
                /\ eIdx <= i
                /\ eIdx = i => (ePhase = "run" \/ (ePhase = "error" /\ eErr # ""))
                /\ ePhase # "done"

----------------------------------------------------------------------------
(* SpecI64: ExternalInt64AsPtr.                                            *)

\* The parameter lists of the functions of the module.
I64ParamLists == {<<"i32">>, <<"i64">>, <<"i32", "i64">>, <<"i64", "i64">>}

\* A function of the module before the pass: an LLVM intrinsic or not, its
\* linkage, its parameters, declaration or definition, and how many call
\* instructions call it.
FuncShapes ==
    [intrinsic : BOOLEAN, linkage : {"external", "internal"}, params : I64ParamLists,
     decl : BOOLEAN, calls : 0..MaxCalls]

\* Intrinsics are external declarations; a declaration is not internal.
ValidShape(sh) ==
    /\ sh.intrinsic => (sh.decl /\ sh.linkage = "external")
    /\ sh.decl => sh.linkage = "external"

ModuleShapes == UNION {[1..n -> {sh \in FuncShapes : ValidShape(sh)}] : n \in 1..2}

FuncName(sh, i) == (IF sh.intrinsic THEN "llvm.f" ELSE "f") \o ToString(i)

\* The function i of a module shape.
FuncOf(shapes, i) ==
    [name |-> FuncName(shapes[i], i), linkage |-> shapes[i].linkage,
     params |-> shapes[i].params, decl |-> shapes[i].decl, body |-> <<>>, orig |-> 0]

\* A call instruction: the callee, and for each argument its type and
\* whether it is the alloca the value was stored in.
Arg(t, alloca) == [type |-> t, alloca |-> alloca]
CallOf(callee, params) ==
    [callee |-> callee, args |-> [k \in 1..Len(params) |-> Arg(params[k], FALSE)], was |-> callee]

RECURSIVE CallsFrom(_, _)
CallsFrom(shapes, i) ==
    IF i > Len(shapes) THEN <<>>
    ELSE [k \in 1..shapes[i].calls |-> CallOf(i, shapes[i].params)] \o CallsFrom(shapes, i + 1)

I64Init ==
    \E shapes \in ModuleShapes :
        /\ xFuncs = [i \in 1..Len(shapes) |-> FuncOf(shapes, i)]
        /\ xCalls = CallsFrom(shapes, 1)
        /\ xIdx = 1
        /\ xUse = 0
        /\ xPhase = "funcs"

\* The name begins with "llvm.": intrinsics are named so in the model.
IsIntrinsic(fn) == \E i \in 1..2 : fn.name = "llvm.f" \o ToString(i)

HasInt64(fn) == \E k \in 1..Len(fn.params) : fn.params[k] = "i64"

\* The parameter types of the external function.
PtrParams(params) == [k \in 1..Len(params) |-> IF params[k] = "i64" THEN "i64*" ELSE params[k]]

\* The pass changes the function.
Changes(fn) == fn.linkage = "external" /\ ~IsIntrinsic(fn) /\ HasInt64(fn)

\* The uses of the function i: the call instructions that call it.
Uses(i) == {u \in 1..Len(xCalls) : xCalls[u].callee = i}
FirstUse(i) == IF Uses(i) = {} THEN 0 ELSE CHOOSE u \in Uses(i) : \A w \in Uses(i) : u <= w
NextUseAfter(i, u) ==
    IF {w \in Uses(i) : w > u} = {} THEN 0
    ELSE CHOOSE w \in Uses(i) : w > u /\ \A z \in Uses(i) : z > u => w <= z

\* A function the pass leaves alone.
SkipFunction ==
    /\ xPhase = "funcs"
    /\ xIdx <= Len(xFuncs)
    /\ ~Changes(xFuncs[xIdx])
    /\ xIdx' = xIdx + 1
    /\ UNCHANGED <<xFuncs, xCalls, xUse, xPhase>>

\* The body of the wrapper: a load for each i64 parameter, the call of the
\* original function and the return.
WrapperBody(params, orig) ==
    SelectSeq([k \in 1..Len(params) |-> [op |-> "load", arg |-> k, callee |-> 0]],
              LAMBDA x : params[x.arg] = "i64")
    \o << [op |-> "call", arg |-> Len(params), callee |-> orig],
          [op |-> "ret", arg |-> 0, callee |-> 0] >>

\* The renamed original and the new external function of its old name.
Renamed(fn, linkage) == [fn EXCEPT !.name = fn.name \o "$i64param", !.linkage = linkage]
ExternalFn(fn, i, body) ==
    [name |-> fn.name, linkage |-> "external", params |-> PtrParams(fn.params),
     decl |-> (body = <<>>), body |-> body, orig |-> i]

\* A function with a definition: it becomes internal and a wrapper of its
\* old name is added.
WrapDefinition ==
    /\ xPhase = "funcs"
    /\ xIdx <= Len(xFuncs)
    /\ Changes(xFuncs[xIdx])
    /\ ~xFuncs[xIdx].decl
    /\ xFuncs' = Append([xFuncs EXCEPT ![xIdx] = Renamed(xFuncs[xIdx], "internal")],
                        ExternalFn(xFuncs[xIdx], xIdx, WrapperBody(xFuncs[xIdx].params, xIdx)))
    /\ xIdx' = xIdx + 1
    /\ UNCHANGED <<xCalls, xUse, xPhase>>

\* A declaration: the external function is added and the walk over the
\* uses of the renamed declaration starts.
RedeclareImport ==
    /\ xPhase = "funcs"
    /\ xIdx <= Len(xFuncs)
    /\ Changes(xFuncs[xIdx])
    /\ xFuncs[xIdx].decl
    /\ xFuncs' = Append([xFuncs EXCEPT ![xIdx] = Renamed(xFuncs[xIdx], "external")],
                        ExternalFn(xFuncs[xIdx], xIdx, <<>>))
    /\ xUse' = FirstUse(xIdx)
    /\ xPhase' = "uses"
    /\ UNCHANGED <<xCalls, xIdx>>

\* The arguments of the new call: an alloca holding the value for each i64.
RewrittenArgs(args) ==
    [k \in 1..Len(args) |-> IF args[k].type = "i64" THEN Arg("i64*", TRUE) ELSE args[k]]

\* One round of the walk: the call is replaced by a call of the external
\* function and erased; use.NextUse() then reads the use of the erased
\* instruction, which gives the next use, nil, or a wild pointer.
RewriteUse ==
    /\ xPhase = "uses"
    /\ xUse # 0
    /\ xCalls' = [xCalls EXCEPT ![xUse] = [callee |-> Len(xFuncs),
                                           args |-> RewrittenArgs(xCalls[xUse].args),
                                           was |-> xIdx]]
    /\ \/ xUse' = NextUseAfter(xIdx, xUse) /\ UNCHANGED xPhase
       \/ xUse' = 0 /\ UNCHANGED xPhase
       \/ xUse' = 0 /\ xPhase' = "crashed"
    /\ UNCHANGED <<xFuncs, xIdx>>

\* The walk ended: the next function.
UsesDone ==
    /\ xPhase = "uses"
    /\ xUse = 0
    /\ xPhase' = "funcs"
    /\ xIdx' = xIdx + 1
    /\ UNCHANGED <<xFuncs, xCalls, xUse>>

\* llvm.NextFunction returned nil.
I64PassDone ==
    /\ xPhase = "funcs"
    /\ xIdx > Len(xFuncs)
    /\ xPhase' = "done"
    /\ UNCHANGED <<xFuncs, xCalls, xIdx, xUse>>

I64Next ==
    \/ SkipFunction /\ UNCHANGED notI64
    \/ WrapDefinition /\ UNCHANGED notI64
    \/ RedeclareImport /\ UNCHANGED notI64
    \/ RewriteUse /\ UNCHANGED notI64
    \/ UsesDone /\ UNCHANGED notI64
    \/ I64PassDone /\ UNCHANGED notI64

InitI64 == I64Init /\ DeferIdle /\ LowerIdle /\ BoundsIdle /\ TypesIdle /\ DeclIdle /\ DriverIdle /\ ErrIdle /\ MainIdle /\ ShiftIdle /\ I2CIdle /\ StrIdle /\ MapIdle /\ ThunkIdle /\ ClosureIdle /\ IterIdle /\ Utf8Idle /\ PutcharIdle

SpecI64 == InitI64 /\ [][I64Next]_vars

----------------------------------------------------------------------------
(* SpecI64: the claims.                                                    *)

\* The external functions the pass added, each with the original it stands
\* for.
Added == {j \in 1..Len(xFuncs) : xFuncs[j].orig # 0}

\* The function i was external, no intrinsic, with an i64 parameter before
\* the pass, and the pass has dealt with it.
WasChanged(i) == \E j \in Added : xFuncs[j].orig = i

----------------------------------------------------------------------------
(* SpecMain: Compile emitting runtime.initAll and runtime.mainWrapper.     *)

\* The import path of the main package.
MainPkgPaths == {"main", "example"}

\* The program: whether it needs the scheduler, whether debug information
\* is emitted, the path of the main package, and the package initializers
\* collected in c.initFuncs.
MainCfgs ==
    [sched : BOOLEAN, debug : BOOLEAN, pkg : MainPkgPaths, inits : 0..MaxInits]

\* A function as declared: external, without a body.
DeclaredFn == [linkage |-> "external", unnamedAddr |-> FALSE, debugLoc |-> FALSE, code |-> <<>>]

MainInit ==
    \E cfg \in MainCfgs :
        /\ mCfg = cfg
        /\ mFuncs = [initAll |-> DeclaredFn, mainWrapper |-> DeclaredFn]
        /\ mPc = "initAll"

\* A call instruction and the return.
CallInstr(callee, args) == [op |-> "call", callee |-> callee, args |-> args]
RetVoid == [op |-> "ret", callee |-> "", args |-> <<>>]

\* Operands: the null i8* constant and the result of an earlier
\* instruction of the function.
NullPtr == "i8* null"
ResultOf(k) == "%" \o ToString(k)

\* initFn becomes internal; the debug location is set when c.Debug.
BeginInitAll ==
    /\ mPc = "initAll"
    /\ mFuncs' = [mFuncs EXCEPT !.initAll.linkage = "internal",
                                !.initAll.unnamedAddr = TRUE,
                                !.initAll.debugLoc = mCfg.debug]
    /\ mPc' = "inits"
    /\ UNCHANGED mCfg

\* One round of the loop over c.initFuncs.
CallInitFunc ==
    /\ mPc = "inits"
    /\ Len(mFuncs.initAll.code) < mCfg.inits
    /\ mFuncs' = [mFuncs EXCEPT !.initAll.code =
                     Append(@, CallInstr("init" \o ToString(Len(@) + 1), <<>>))]
    /\ UNCHANGED <<mCfg, mPc>>

RetInitAll ==
    /\ mPc = "inits"
    /\ Len(mFuncs.initAll.code) = mCfg.inits
    /\ mFuncs' = [mFuncs EXCEPT !.initAll.code = Append(@, RetVoid)]
    /\ mPc' = "mainWrapper"
    /\ UNCHANGED mCfg

\* mainWrapper becomes internal; the debug location is set when c.Debug.
BeginMainWrapper ==
    /\ mPc = "mainWrapper"
    /\ mFuncs' = [mFuncs EXCEPT !.mainWrapper.linkage = "internal",
                                !.mainWrapper.unnamedAddr = TRUE,
                                !.mainWrapper.debugLoc = mCfg.debug]
    /\ mPc' = "calls"
    /\ UNCHANGED mCfg

\* realMain: the function named <path of the main package>.main.
RealMain(pkg) == pkg \o ".main"

\* (mutant of WrapperCalls: main.main is always called directly)
WrapperCallsDirect(needsScheduler, pkg) ==
    << CallInstr(RealMain(pkg), <<>>) >>

\* The calls of mainWrapper.
WrapperCalls(needsScheduler, pkg) ==
    IF needsScheduler
    THEN << CallInstr(RealMain(pkg), <<NullPtr>>),
            CallInstr("runtime.scheduler", <<ResultOf(1)>>) >>
    ELSE << CallInstr(RealMain(pkg), <<>>) >>

\* One CreateCall of mainWrapper.
EmitWrapperCall ==
    /\ mPc = "calls"
    /\ LET calls == WrapperCalls(mCfg.sched, mCfg.pkg)
           n == Len(mFuncs.mainWrapper.code)
       IN /\ mFuncs' = [mFuncs EXCEPT !.mainWrapper.code = Append(@, calls[n + 1])]
          /\ mPc' = IF n + 1 = Len(calls) THEN "ret" ELSE "calls"
    /\ UNCHANGED mCfg

RetMainWrapper ==
    /\ mPc = "ret"
    /\ mFuncs' = [mFuncs EXCEPT !.mainWrapper.code = Append(@, RetVoid)]
    /\ mPc' = "done"
    /\ UNCHANGED mCfg

MainNext ==
    \/ BeginInitAll /\ UNCHANGED notMain
    \/ CallInitFunc /\ UNCHANGED notMain
    \/ RetInitAll /\ UNCHANGED notMain
    \/ BeginMainWrapper /\ UNCHANGED notMain
    \/ EmitWrapperCall /\ UNCHANGED notMain
    \/ RetMainWrapper /\ UNCHANGED notMain

InitMain == MainInit /\ DeferIdle /\ LowerIdle /\ BoundsIdle /\ TypesIdle /\ DeclIdle /\ DriverIdle /\ ErrIdle /\ I64Idle /\ ShiftIdle /\ I2CIdle /\ StrIdle /\ MapIdle /\ ThunkIdle /\ ClosureIdle /\ IterIdle /\ Utf8Idle /\ PutcharIdle

SpecMain == InitMain /\ [][MainNext]_vars

----------------------------------------------------------------------------
(* SpecMain: the claims.                                                   *)

\* The instructions of mainWrapper that call the function of that name.
CallsTo(name) ==
    {k \in 1..Len(mFuncs.mainWrapper.code) :
        mFuncs.mainWrapper.code[k].op = "call" /\ mFuncs.mainWrapper.code[k].callee = name}

\* C16: when the program needs the scheduler, mainWrapper calls the main
\* function of the main package with a null parent and then
\* runtime.scheduler with the value that call returned, in this order;
\* otherwise it calls the main function without arguments and never
\* runtime.scheduler. In both cases the return follows and ends the code.
C16_MainWrapperCalls ==
    LET code == mFuncs.mainWrapper.code
        main == RealMain(mCfg.pkg)
    IN /\ (mPc # "idle" /\ ~mCfg.sched) => CallsTo("runtime.scheduler") = {}
       /\ (mPc # "idle" /\ mCfg.sched) =>
             \A s \in CallsTo("runtime.scheduler") :
                 /\ s = 2
                 /\ code[1] = CallInstr(main, <<NullPtr>>)
                 /\ code[s].args = <<ResultOf(1)>>
       /\ mPc = "done" =>
             /\ code[Len(code)] = RetVoid
             /\ \A k \in 1..(Len(code) - 1) : code[k].op = "call"
             /\ IF mCfg.sched
                THEN /\ Len(code) = 3
                     /\ CallsTo(main) = {1}
                     /\ CallsTo("runtime.scheduler") = {2}
                ELSE /\ Len(code) = 2
                     /\ code[1] = CallInstr(main, <<>>)

\* Both wrappers were emitted: one of a program with the scheduler.
C16_Witness ==
    /\ mPc = "done"
    /\ mCfg.sched
    /\ Len(mFuncs.mainWrapper.code) = 3

----------------------------------------------------------------------------
(* SpecShift: parseBinOp lowering a shift of integers.                     *)

\* The widths of the integer types of Go, in bits.
IntegerWidths == {8, 16, 32, 64}

\* A shift x << y or x >> y: the token, the signedness of the type of the
\* operation, and the widths of x and of y.
ShiftOps ==
    [op : {"SHL", "SHR"}, signed : BOOLEAN, wx : IntegerWidths, wy : IntegerWidths]

ShiftInit ==
    \E o \in ShiftOps :
        /\ sOp = o
        /\ sY = o.wy
        /\ sCode = <<>>
        /\ sPc = "sizes"

\* c.targetData.TypeAllocSize of an integer type: its size in bytes.
TypeAllocSize(w) == (w + 7) \div 8

\* An instruction: the opcode, the widths of its operands (b is 0 when
\* there is one operand) and the width of its result.
SInstr(op, a, b, w) == [op |-> op, a |-> a, b |-> b, w |-> w]

\* (mutant of CountConversion: y is used as it is)
CountConversionNone(wx, wy) ==
    <<>>

\* The conversion of y to the type of x.
CountConversion(wx, wy) ==
    IF TypeAllocSize(wx) > TypeAllocSize(wy) THEN << SInstr("zext", wy, 0, wx) >>
    ELSE IF TypeAllocSize(wx) < TypeAllocSize(wy) THEN << SInstr("trunc", wy, 0, wx) >>
    ELSE <<>>

\* y is made as wide as x.
NormalizeCount ==
    /\ sPc = "sizes"
    /\ LET conv == CountConversion(sOp.wx, sOp.wy)
       IN /\ sCode' = sCode \o conv
          /\ sY' = IF conv = <<>> THEN sY ELSE conv[1].w
    /\ sPc' = "shift"
    /\ UNCHANGED sOp

\* The shift instruction of the token and the signedness.
ShiftOpcode(op, signed) ==
    IF op = "SHL" THEN "shl" ELSE IF signed THEN "ashr" ELSE "lshr"

\* The shift: its result has the type of its first operand.
EmitShift ==
    /\ sPc = "shift"
    /\ sCode' = Append(sCode, SInstr(ShiftOpcode(sOp.op, sOp.signed), sOp.wx, sY, sOp.wx))
    /\ sPc' = "done"
    /\ UNCHANGED <<sOp, sY>>

ShiftNext ==
    \/ NormalizeCount /\ UNCHANGED notShift
    \/ EmitShift /\ UNCHANGED notShift

InitShift == ShiftInit /\ DeferIdle /\ LowerIdle /\ BoundsIdle /\ TypesIdle /\ DeclIdle /\ DriverIdle /\ ErrIdle /\ I64Idle /\ MainIdle /\ I2CIdle /\ StrIdle /\ MapIdle /\ ThunkIdle /\ ClosureIdle /\ IterIdle /\ Utf8Idle /\ PutcharIdle

SpecShift == InitShift /\ [][ShiftNext]_vars

----------------------------------------------------------------------------
(* SpecShift: the claims.                                                  *)

IsShift(in) == in.op \in {"shl", "ashr", "lshr"}

\* C18: the count of a shift is converted to the width of x before the
\* shift, by a zero extension when it is narrower and a truncation when it
\* is wider, and the shift has both operands and its result of the width
\* of x; no instruction follows the shift.
C18_ShiftCountNormalized ==
    sPc = "done" =>
        LET n == Len(sCode)
        IN /\ n >= 1
           /\ IsShift(sCode[n])
           /\ sCode[n].a = sOp.wx
           /\ sCode[n].b = sOp.wx
           /\ sCode[n].w = sOp.wx
           /\ \A k \in 1..(n - 1) : ~IsShift(sCode[k])
           /\ sOp.wy < sOp.wx => (n = 2 /\ sCode[1] = SInstr("zext", sOp.wy, 0, sOp.wx))
           /\ sOp.wy > sOp.wx => (n = 2 /\ sCode[1] = SInstr("trunc", sOp.wy, 0, sOp.wx))
           /\ sOp.wy = sOp.wx => n = 1

\* A shift with a wider count was lowered.
C18_Witness ==
    /\ sPc = "done"
    /\ sOp.wy > sOp.wx
    /\ Len(sCode) = 2
    /\ sCode[1].op = "trunc"

----------------------------------------------------------------------------
(* SpecI2C: machine.I2C, WriteRegister and ReadRegister.  The slice data   *)
(* is a sequence: data[k] here is data[k-1] of the source.                 *)

\* uint8 values for the address, the register and the bytes.
Addresses == {60, 104}
Registers == {0, 117}
Bytes == {0, 255}

RECURSIVE SlicesOfLen(_)
SlicesOfLen(n) ==
    IF n = 0 THEN {<<>>}
    ELSE {Append(d, b) : d \in SlicesOfLen(n - 1), b \in Bytes}

\* The slices handed to the methods.
DataSlices == UNION {SlicesOfLen(n) : n \in 0..MaxData}

I2CCalls ==
    [fn : {"WriteRegister", "ReadRegister"}, address : Addresses, register : Registers]

I2CInit ==
    /\ iCall \in I2CCalls
    /\ iData \in DataSlices
    /\ iIdx = 0
    /\ iBus = <<>>
    /\ iPc = "start"

\* The operations of the bus: the methods of I2C of the target.
BusStart(address, write) == [op |-> "Start", address |-> address, write |-> write, byte |-> 0]
BusWriteByte(b) == [op |-> "WriteByte", address |-> 0, write |-> TRUE, byte |-> b]
BusReadByte(b) == [op |-> "ReadByte", address |-> 0, write |-> FALSE, byte |-> b]
BusStop == [op |-> "Stop", address |-> 0, write |-> FALSE, byte |-> 0]

\* i2c.Start(address, true)
StartForWriting ==
    /\ iPc = "start"
    /\ iBus' = Append(iBus, BusStart(iCall.address, TRUE))
    /\ iPc' = "register"
    /\ UNCHANGED <<iCall, iData, iIdx>>

\* i2c.WriteByte(register)
WriteRegisterByte ==
    /\ iPc = "register"
    /\ iBus' = Append(iBus, BusWriteByte(iCall.register))
    /\ iPc' = IF iCall.fn = "WriteRegister" THEN "write" ELSE "restart"
    /\ UNCHANGED <<iCall, iData, iIdx>>

\* i2c.Start(address, false) of ReadRegister
StartForReading ==
    /\ iPc = "restart"
    /\ iBus' = Append(iBus, BusStart(iCall.address, FALSE))
    /\ iPc' = "read"
    /\ UNCHANGED <<iCall, iData, iIdx>>

\* One round of the loop of Write.
WriteLoop ==
    /\ iPc = "write"
    /\ iIdx < Len(iData)
    /\ iBus' = Append(iBus, BusWriteByte(iData[iIdx + 1]))
    /\ iIdx' = iIdx + 1
    /\ UNCHANGED <<iCall, iData, iPc>>

\* (mutant of StoreByte: the bytes are stored from the end of the slice)
StoreByteFromEnd(data, i, b) ==
    [data EXCEPT ![Len(data) + 1 - i] = b]

\* data[i] = b
StoreByte(data, i, b) ==
    [data EXCEPT ![i] = b]

\* One round of the loop of Read: the byte is what the peripheral sends.
ReadLoop ==
    /\ iPc = "read"
    /\ iIdx < Len(iData)
    /\ \E b \in Bytes :
          /\ iBus' = Append(iBus, BusReadByte(b))
          /\ iData' = StoreByte(iData, iIdx + 1, b)
    /\ iIdx' = iIdx + 1
    /\ UNCHANGED <<iCall, iPc>>

\* The loop of Write or Read ended: i2c.Stop()
StopBus ==
    /\ iPc \in {"write", "read"}
    /\ iIdx = Len(iData)
    /\ iBus' = Append(iBus, BusStop)
    /\ iPc' = "done"
    /\ UNCHANGED <<iCall, iData, iIdx>>

I2CNext ==
    \/ StartForWriting /\ UNCHANGED notI2C
    \/ WriteRegisterByte /\ UNCHANGED notI2C
    \/ StartForReading /\ UNCHANGED notI2C
    \/ WriteLoop /\ UNCHANGED notI2C
    \/ ReadLoop /\ UNCHANGED notI2C
    \/ StopBus /\ UNCHANGED notI2C

InitI2C == I2CInit /\ DeferIdle /\ LowerIdle /\ BoundsIdle /\ TypesIdle /\ DeclIdle /\ DriverIdle /\ ErrIdle /\ I64Idle /\ MainIdle /\ ShiftIdle /\ StrIdle /\ MapIdle /\ ThunkIdle /\ ClosureIdle /\ IterIdle /\ Utf8Idle /\ PutcharIdle

SpecI2C == InitI2C /\ [][I2CNext]_vars

----------------------------------------------------------------------------
(* SpecI2C: the claims.                                                    *)

Stops == {k \in 1..Len(iBus) : iBus[k].op = "Stop"}

\* C20: WriteRegister and ReadRegister are one whole transaction of the
\* bus: Start(address, write) comes first, WriteByte(register) second;
\* ReadRegister goes on with Start(address, read) and one ReadByte for each
\* element of data, stored in index order; WriteRegister goes on with one
\* WriteByte for each element of data in index order; one Stop ends the
\* transaction and nothing comes after it.
C20_RegisterTransaction ==
    /\ \A k \in Stops : k = Len(iBus)
    /\ iPc = "done" =>
          LET n == Len(iData)
          IN /\ iBus[1] = BusStart(iCall.address, TRUE)
             /\ iBus[2] = BusWriteByte(iCall.register)
             /\ iBus[Len(iBus)] = BusStop
             /\ Cardinality(Stops) = 1
             /\ IF iCall.fn = "WriteRegister"
                THEN /\ Len(iBus) = n + 3
                     /\ \A k \in 1..n : iBus[2 + k] = BusWriteByte(iData[k])
                ELSE /\ Len(iBus) = n + 4
                     /\ iBus[3] = BusStart(iCall.address, FALSE)
                     /\ \A k \in 1..n : iBus[3 + k] = BusReadByte(iData[k])

\* ReadRegister ended after two different bytes were read into data.
C20_Witness ==
    /\ iPc = "done"
    /\ iCall.fn = "ReadRegister"
    /\ Len(iData) = 2
    /\ iData[1] # iData[2]
    /\ Len(iBus) = 6

----------------------------------------------------------------------------
(* SpecStr: parseBinOp lowering a comparison of strings, and stringEqual   *)
(* and stringLess of the runtime computing it.  A string is the sequence   *)
(* of its bytes: x[k] here is x[k-1] of the source.                        *)

StrBytes == {97, 98}

RECURSIVE StringsOfLen(_)
StringsOfLen(n) ==
    IF n = 0 THEN {<<>>}
    ELSE {Append(s, b) : s \in StringsOfLen(n - 1), b \in StrBytes}

Strings == UNION {StringsOfLen(n) : n \in 0..MaxStr}

CompareTokens == {"EQL", "NEQ", "LSS", "LEQ", "GTR", "GEQ"}

StrInit ==
    /\ qOp \in [op : CompareTokens, x : Strings, y : Strings]
    /\ qCode = <<>>
    /\ qVal = <<>>
    /\ qPc = "lower"

\* runtime.stringEqual: the loop from index i on.
RECURSIVE stringEqualFrom(_, _, _)
stringEqualFrom(x, y, i) ==
    IF i >= Len(x) THEN TRUE
    ELSE IF x[i + 1] # y[i + 1] THEN FALSE
    ELSE stringEqualFrom(x, y, i + 1)

stringEqual(x, y) ==
    IF Len(x) # Len(y) THEN FALSE ELSE stringEqualFrom(x, y, 0)

\* runtime.stringLess: the loop from index i on, l the shorter length.
RECURSIVE stringLessFrom(_, _, _, _)
stringLessFrom(x, y, l, i) ==
    IF i >= l THEN Len(x) < Len(y)
    ELSE IF x[i + 1] < y[i + 1] THEN TRUE
    ELSE IF x[i + 1] > y[i + 1] THEN FALSE
    ELSE stringLessFrom(x, y, l, i + 1)

stringLess(x, y) ==
    stringLessFrom(x, y, IF Len(y) < Len(x) THEN Len(y) ELSE Len(x), 0)

\* The instructions of a comparison: a call of the runtime with the
\* operands in the order (a, b), and the negation of its result.
QCall(fn, a, b) == [op |-> "call", fn |-> fn, a |-> a, b |-> b]
QNot == [op |-> "not", fn |-> "", a |-> "", b |-> ""]

\* parseBinOp, the operations on strings.
StringCompareCode(op) ==
    CASE op = "EQL" -> << QCall("stringEqual", "x", "y") >>
      [] op = "NEQ" -> << QCall("stringEqual", "x", "y"), QNot >>
      [] op = "LSS" -> << QCall("stringLess", "x", "y") >>
      [] op = "LEQ" -> << QCall("stringLess", "y", "x"), QNot >>
      [] op = "GTR" -> << QCall("stringLess", "x", "y"), QNot >>
      [] op = "GEQ" -> << QCall("stringLess", "y", "x") >>

LowerStringCompare ==
    /\ qPc = "lower"
    /\ qCode' = StringCompareCode(qOp.op)
    /\ qPc' = "run"
    /\ UNCHANGED <<qOp, qVal>>

Operand(n) == IF n = "x" THEN qOp.x ELSE qOp.y

\* The program runs the call of the runtime function.
RunStringCall ==
    /\ qPc = "run"
    /\ Len(qVal) < Len(qCode)
    /\ LET in == qCode[Len(qVal) + 1]
       IN /\ in.op = "call"
          /\ qVal' = Append(qVal, IF in.fn = "stringEqual"
                                  THEN stringEqual(Operand(in.a), Operand(in.b))
                                  ELSE stringLess(Operand(in.a), Operand(in.b)))
    /\ UNCHANGED <<qOp, qCode, qPc>>

\* The program runs the negation of the value before it.
RunStringNot ==
    /\ qPc = "run"
    /\ Len(qVal) < Len(qCode)
    /\ qCode[Len(qVal) + 1].op = "not"
    /\ qVal' = Append(qVal, ~qVal[Len(qVal)])
    /\ UNCHANGED <<qOp, qCode, qPc>>

\* The last instruction ran: its value is the value of the comparison.
StringCompareDone ==
    /\ qPc = "run"
    /\ Len(qVal) = Len(qCode)
    /\ qPc' = "done"
    /\ UNCHANGED <<qOp, qCode, qVal>>

StrNext ==
    \/ LowerStringCompare /\ UNCHANGED notStr
    \/ RunStringCall /\ UNCHANGED notStr
    \/ RunStringNot /\ UNCHANGED notStr
    \/ StringCompareDone /\ UNCHANGED notStr

InitStr == StrInit /\ DeferIdle /\ LowerIdle /\ BoundsIdle /\ TypesIdle /\ DeclIdle /\ DriverIdle /\ ErrIdle /\ I64Idle /\ MainIdle /\ ShiftIdle /\ I2CIdle /\ MapIdle /\ ThunkIdle /\ ClosureIdle /\ IterIdle /\ Utf8Idle /\ PutcharIdle

SpecStr == InitStr /\ [][StrNext]_vars

----------------------------------------------------------------------------
(* SpecStr: the claims.                                                    *)

\* x is before y in the byte-wise lexicographic order: at the first index
\* where they differ x has the smaller byte, or x is a proper prefix of y.
LexLess(x, y) ==
    \E k \in 1..Len(y) :
        /\ k <= Len(x) + 1
        /\ \A j \in 1..(k - 1) : x[j] = y[j]
        /\ (k = Len(x) + 1 \/ x[k] < y[k])

LexCompare(op, x, y) ==
    CASE op = "EQL" -> x = y
      [] op = "NEQ" -> x # y
      [] op = "LSS" -> LexLess(x, y)
      [] op = "LEQ" -> LexLess(x, y) \/ x = y
      [] op = "GTR" -> LexLess(y, x)
      [] op = "GEQ" -> LexLess(y, x) \/ x = y

\* C22 (as claimed): the value the lowering of x OP y computes, for OP one
\* of ==, !=, <, <=, >, >=, is the byte-wise lexicographic comparison of x
\* and y.
C22_StringCompareIsLexicographic ==
    qPc = "done" => qVal[Len(qVal)] = LexCompare(qOp.op, qOp.x, qOp.y)

----------------------------------------------------------------------------
(* SpecMap: getInterpretedValue on an *ir.MapValue.  Pairs are numbered    *)
(* from 0 as in the source; a field holds <<>> for the zero value and      *)
(* <<c>> for the constant c.                                               *)

\* The number of slots of a bucket.
BucketSlots == 8

\* The literals: n pairs, the value of pair bad-1 cannot be lowered
\* (bad = 0: all can).
MapLiterals == {[n |-> n, bad |-> b] : n \in 0..MaxPairs, b \in {0, 1, 9}}

MapInit ==
    /\ hLit \in {l \in MapLiterals : l.bad <= l.n}
    /\ hBuckets = <<>>
    /\ hCur = 0
    /\ hI = 0
    /\ hMap = <<>>
    /\ hPc = "bucket"

\* The key and the value of pair i, and the top byte of the hash of the
\* key (hashmapTopHash(hashmapHash(keyBuf))).
KeyOf(i) == <<"key", i>>
ValueOf(i) == <<"value", i>>
TopHashOf(key) == <<"tophash", key>>

\* initMapNewBucket: a global of the bucket type with the zero value.
ZeroBucket ==
    [tophash |-> [k \in 0..(BucketSlots - 1) |-> <<>>],
     next |-> 0,
     keys |-> [k \in 0..(BucketSlots - 1) |-> <<>>],
     values |-> [k \in 0..(BucketSlots - 1) |-> <<>>]]

\* The first bucket.
NewFirstBucket ==
    /\ hPc = "bucket"
    /\ hBuckets' = <<ZeroBucket>>
    /\ hCur' = 1
    /\ hPc' = "pairs"
    /\ UNCHANGED <<hLit, hI, hMap>>

\* (mutant of BucketFull: the first bucket takes every pair)
BucketFullNever(i) ==
    FALSE

\* The bucket is full when pair i comes.
BucketFull(i) ==
    i % BucketSlots = 0 /\ i # 0

\* The buckets after a new one was created and linked from the old one.
WithNewBucket(buckets, cur) ==
    Append([buckets EXCEPT ![cur].next = Len(buckets) + 1], ZeroBucket)

\* The bucket with pair i inserted.
WithPair(bucket, i) ==
    [bucket EXCEPT !.tophash[i % BucketSlots] = TopHashOf(KeyOf(i)),
                   !.keys[i % BucketSlots] = KeyOf(i),
                   !.values[i % BucketSlots] = ValueOf(i)]

\* One round of the loop over value.Keys with a value that is lowered.
InsertPair ==
    /\ hPc = "pairs"
    /\ hI < hLit.n
    /\ hLit.bad # hI + 1
    /\ LET buckets == IF BucketFull(hI) THEN WithNewBucket(hBuckets, hCur) ELSE hBuckets
           cur == IF BucketFull(hI) THEN Len(buckets) ELSE hCur
       IN /\ hBuckets' = [buckets EXCEPT ![cur] = WithPair(buckets[cur], hI)]
          /\ hCur' = cur
    /\ hI' = hI + 1
    /\ UNCHANGED <<hLit, hMap, hPc>>

\* One round of the loop with a value that is not lowered: the function
\* returns the nil value.
InsertPairFails ==
    /\ hPc = "pairs"
    /\ hI < hLit.n
    /\ hLit.bad = hI + 1
    /\ hPc' = "failed"
    /\ UNCHANGED <<hLit, hBuckets, hCur, hI, hMap>>

\* The hashmap global after the loop.
CreateHashmap ==
    /\ hPc = "pairs"
    /\ hI = hLit.n
    /\ hMap' = [next |-> 0, buckets |-> 1, count |-> hLit.n, bucketBits |-> 0]
    /\ hPc' = "done"
    /\ UNCHANGED <<hLit, hBuckets, hCur, hI>>

MapNext ==
    \/ NewFirstBucket /\ UNCHANGED notMap
    \/ InsertPair /\ UNCHANGED notMap
    \/ InsertPairFails /\ UNCHANGED notMap
    \/ CreateHashmap /\ UNCHANGED notMap

InitMap == MapInit /\ DeferIdle /\ LowerIdle /\ BoundsIdle /\ TypesIdle /\ DeclIdle /\ DriverIdle /\ ErrIdle /\ I64Idle /\ MainIdle /\ ShiftIdle /\ I2CIdle /\ StrIdle /\ ThunkIdle /\ ClosureIdle /\ IterIdle /\ Utf8Idle /\ PutcharIdle

SpecMap == InitMap /\ [][MapNext]_vars

----------------------------------------------------------------------------
(* SpecMap: the claims.                                                    *)

\* max(1, ceil(n / 8))
ChainLength(n) == IF n = 0 THEN 1 ELSE (n + BucketSlots - 1) \div BucketSlots

\* C23: a materialised map literal of N pairs is a chain of
\* max(1, ceil(N/8)) bucket globals; pair i is in slot i mod 8 of bucket
\* floor(i/8) with the top hash of its key, and no other slot is filled;
\* each bucket but the last points to the one after it and the last has a
\* null next; the hashmap points to the first bucket and has count N.
C23_MapLiteralBucketChain ==
    hPc = "done" =>
        /\ Len(hBuckets) = ChainLength(hLit.n)
        /\ \A i \in 0..(hLit.n - 1) :
              LET b == hBuckets[(i \div BucketSlots) + 1]
              IN /\ b.tophash[i % BucketSlots] = TopHashOf(KeyOf(i))
                 /\ b.keys[i % BucketSlots] = KeyOf(i)
                 /\ b.values[i % BucketSlots] = ValueOf(i)
        /\ \A k \in 1..Len(hBuckets) : \A j \in 0..(BucketSlots - 1) :
              (k - 1) * BucketSlots + j >= hLit.n => hBuckets[k].tophash[j] = <<>>
        /\ \A k \in 1..(Len(hBuckets) - 1) : hBuckets[k].next = k + 1
        /\ hBuckets[Len(hBuckets)].next = 0
        /\ hMap.buckets = 1
        /\ hMap.count = hLit.n

\* A literal that fills two buckets and goes on in a third.
C23_Witness ==
    /\ hPc = "done"
    /\ hLit.n > 2 * BucketSlots
    /\ Len(hBuckets) = 3
    /\ hBuckets[3].keys[0] = KeyOf(2 * BucketSlots)

----------------------------------------------------------------------------
(* SpecThunk: parseInstr registering the thunk of each *ssa.Defer, and     *)
(* Compile emitting the thunks after the functions.                        *)

\* A defer instruction: the kind of its call, the callee (the function,
\* the interface method, or the function of the closure) and the function
\* the instruction is in.
DeferKinds == {"invoke", "func", "closure"}
DeferCallees == {"f", "g"}
EnclosingFns == {"main.a", "main.b"}
DeferInstrs == [kind : DeferKinds, callee : DeferCallees, in : EnclosingFns]

ThunkInit ==
    /\ kSites \in UNION {[1..n -> DeferInstrs] : n \in 1..MaxSites}
    /\ kIdx = 0
    /\ kDecls = <<>>
    /\ kFuncs = <<>>
    /\ kInvokes = <<>>
    /\ kCtxs = <<>>
    /\ kBodies = <<>>
    /\ kPc = "funcs"

\* c.mod.NamedFunction(name).IsNil()
NotInModule(name) == \A j \in 1..Len(kDecls) : kDecls[j] # name

\* The name llvm.AddFunction gives the function: the module makes the name
\* unique with a numeric suffix when it is taken.
AddedName(name) ==
    IF NotInModule(name) THEN name ELSE name \o "." \o ToString(Len(kDecls))

ThunkOf(name, site) == [name |-> name, kind |-> site.kind, callee |-> site.callee]

\* *ssa.Defer of a call on an interface.
LowerDeferInvoke ==
    /\ kPc = "funcs" /\ kIdx < Len(kSites)
    /\ LET site == kSites[kIdx + 1]
           deferName == "I." \o site.callee \o "$defer"
       IN /\ site.kind = "invoke"
          /\ IF NotInModule(deferName)
             THEN /\ kDecls' = Append(kDecls, deferName)
                  /\ kInvokes' = Append(kInvokes, ThunkOf(deferName, site))
             ELSE UNCHANGED <<kDecls, kInvokes>>
    /\ kIdx' = kIdx + 1
    /\ UNCHANGED <<kSites, kFuncs, kCtxs, kBodies, kPc>>

\* *ssa.Defer of a call of a function.
LowerDeferFunc ==
    /\ kPc = "funcs" /\ kIdx < Len(kSites)
    /\ LET site == kSites[kIdx + 1]
           deferName == "main." \o site.callee \o "$defer"
       IN /\ site.kind = "func"
          /\ IF NotInModule(deferName)
             THEN /\ kDecls' = Append(kDecls, deferName)
                  /\ kFuncs' = Append(kFuncs, ThunkOf(deferName, site))
             ELSE UNCHANGED <<kDecls, kFuncs>>
    /\ kIdx' = kIdx + 1
    /\ UNCHANGED <<kSites, kInvokes, kCtxs, kBodies, kPc>>

\* *ssa.Defer of a function literal with free variables: the thunk is
\* named after the function the instruction is in and always added.
LowerDeferClosure ==
    /\ kPc = "funcs" /\ kIdx < Len(kSites)
    /\ LET site == kSites[kIdx + 1]
           callback == AddedName(site.in \o "$fpdefer")
       IN /\ site.kind = "closure"
          /\ kDecls' = Append(kDecls, callback)
          /\ kCtxs' = Append(kCtxs, ThunkOf(callback, site))
    /\ kIdx' = kIdx + 1
    /\ UNCHANGED <<kSites, kFuncs, kInvokes, kBodies, kPc>>

\* All functions are lowered.
FuncsLowered ==
    /\ kPc = "funcs" /\ kIdx = Len(kSites)
    /\ kPc' = "thunks"
    /\ UNCHANGED <<kSites, kIdx, kDecls, kFuncs, kInvokes, kCtxs, kBodies>>

\* The body of a thunk, with the number of defer instructions lowered
\* when it is emitted.
Body(thunk) == [name |-> thunk.name, kind |-> thunk.kind, callee |-> thunk.callee, after |-> kIdx]

BodiesOf(kind) == Len(SelectSeq(kBodies, LAMBDA b : b.kind = kind))

\* One round of the loop over c.deferFuncs.
EmitFuncThunk ==
    /\ kPc = "thunks"
    /\ BodiesOf("func") < Len(kFuncs)
    /\ kBodies' = Append(kBodies, Body(kFuncs[BodiesOf("func") + 1]))
    /\ UNCHANGED <<kSites, kIdx, kDecls, kFuncs, kInvokes, kCtxs, kPc>>

\* One round of the loop over c.deferInvokeFuncs.
EmitInvokeThunk ==
    /\ kPc = "thunks"
    /\ BodiesOf("func") = Len(kFuncs)
    /\ BodiesOf("invoke") < Len(kInvokes)
    /\ kBodies' = Append(kBodies, Body(kInvokes[BodiesOf("invoke") + 1]))
    /\ UNCHANGED <<kSites, kIdx, kDecls, kFuncs, kInvokes, kCtxs, kPc>>

\* One round of the loop over c.ctxDeferFuncs.
EmitCtxThunk ==
    /\ kPc = "thunks"
    /\ BodiesOf("func") = Len(kFuncs)
    /\ BodiesOf("invoke") = Len(kInvokes)
    /\ BodiesOf("closure") < Len(kCtxs)
    /\ kBodies' = Append(kBodies, Body(kCtxs[BodiesOf("closure") + 1]))
    /\ UNCHANGED <<kSites, kIdx, kDecls, kFuncs, kInvokes, kCtxs, kPc>>

ThunksDone ==
    /\ kPc = "thunks"
    /\ Len(kBodies) = Len(kFuncs) + Len(kInvokes) + Len(kCtxs)
    /\ kPc' = "done"
    /\ UNCHANGED <<kSites, kIdx, kDecls, kFuncs, kInvokes, kCtxs, kBodies>>

ThunkNext ==
    \/ LowerDeferInvoke /\ UNCHANGED notThunk
    \/ LowerDeferFunc /\ UNCHANGED notThunk
    \/ LowerDeferClosure /\ UNCHANGED notThunk
    \/ FuncsLowered /\ UNCHANGED notThunk
    \/ EmitFuncThunk /\ UNCHANGED notThunk
    \/ EmitInvokeThunk /\ UNCHANGED notThunk
    \/ EmitCtxThunk /\ UNCHANGED notThunk
    \/ ThunksDone /\ UNCHANGED notThunk

InitThunk == ThunkInit /\ DeferIdle /\ LowerIdle /\ BoundsIdle /\ TypesIdle /\ DeclIdle /\ DriverIdle /\ ErrIdle /\ I64Idle /\ MainIdle /\ ShiftIdle /\ I2CIdle /\ StrIdle /\ MapIdle /\ ClosureIdle /\ IterIdle /\ Utf8Idle /\ PutcharIdle

SpecThunk == InitThunk /\ [][ThunkNext]_vars

----------------------------------------------------------------------------
(* SpecThunk: the claims.                                                  *)

\* The deferred callees of the program: kind and callee.
DeferTargets == {<<kSites[j].kind, kSites[j].callee>> : j \in 1..Len(kSites)}

ThunksFor(seq, t) == {j \in 1..Len(seq) : <<seq[j].kind, seq[j].callee>> = t}

\* C24 (as claimed): however many defer instructions have the same callee
\* (the same function, the same interface method, or the same function of
\* a closure), one thunk is registered and one body emitted for it; and a
\* thunk body is emitted only after all functions are lowered.
C24_OneThunkPerCallee ==
    /\ \A j \in 1..Len(kBodies) : kBodies[j].after = Len(kSites)
    /\ kPc = "done" =>
          \A t \in DeferTargets :
              /\ Cardinality(ThunksFor(kFuncs \o kInvokes \o kCtxs, t)) = 1
              /\ Cardinality(ThunksFor(kBodies, t)) = 1

----------------------------------------------------------------------------
(* SpecClosure: parseMakeClosure building the context of a closure and     *)
(* parseFunc loading the free variables from it.  Memory is a sequence of  *)
(* bytes; byte k of the value of bound variable i is the pair <<i, k>>,    *)
(* <<0, 0>> is a byte nothing was stored in and <<-1, k>> byte k of an     *)
(* address.                                                                *)

\* The LLVM types of the bound variables.
BoundVarTypes == {"i8", "i32", "ptr", "i64"}

Closures ==
    [ptr : PointerSizes, types : UNION {[1..n -> BoundVarTypes] : n \in 1..MaxVars}]

\* c.targetData.TypeAllocSize and the ABI alignment of a scalar type.
ScalarSize(t, ptr) ==
    CASE t = "i8" -> 1 [] t = "i32" -> 4 [] t = "ptr" -> ptr [] t = "i64" -> 8
ScalarAlign(t, ptr) == IF ptr < 4 THEN 1 ELSE ScalarSize(t, ptr)

AlignUp(n, a) == ((n + a - 1) \div a) * a

MaxOf(S) == CHOOSE x \in S : \A y \in S : y <= x

\* The layout of c.ctx.StructType(types, false): the offset of field i and
\* the alloc size of the struct.
RECURSIVE FieldOffset(_, _, _)
FieldOffset(types, ptr, i) ==
    IF i = 1 THEN 0
    ELSE AlignUp(FieldOffset(types, ptr, i - 1) + ScalarSize(types[i - 1], ptr),
                 ScalarAlign(types[i], ptr))

StructAllocSize(types, ptr) ==
    AlignUp(FieldOffset(types, ptr, Len(types)) + ScalarSize(types[Len(types)], ptr),
            MaxOf({ScalarAlign(types[i], ptr) : i \in 1..Len(types)}))

ClosureInit ==
    /\ cFn \in Closures
    /\ cMem = <<>>
    /\ cStored = 0
    /\ cContext = <<>>
    /\ cSlot = <<>>
    /\ cLocals = <<>>
    /\ cPc = "alloc"

Unset == <<0, 0>>
UnsetBlock(n) == [k \in 1..n |-> Unset]

\* The bytes of the value of bound variable i.
ValueBytes(i, t, ptr) == [k \in 1..ScalarSize(t, ptr) |-> <<i, k>>]

\* mem with the bytes val stored at offset off, and the bytes read there.
StoreAt(mem, off, val) ==
    [k \in 1..Len(mem) |-> IF k > off /\ k <= off + Len(val) THEN val[k - off] ELSE mem[k]]
LoadAt(mem, off, n) ==
    [k \in 1..n |-> IF off + k <= Len(mem) THEN mem[off + k] ELSE Unset]

\* parseMakeClosure: the context is kept in the pointer itself.
CreatorInline(types, ptr) == StructAllocSize(types, ptr) <= ptr

\* The alloca of the context type, or the heap block of its size.
AllocContext ==
    /\ cPc = "alloc"
    /\ cMem' = UnsetBlock(StructAllocSize(cFn.types, cFn.ptr))
    /\ cPc' = "store"
    /\ UNCHANGED <<cFn, cStored, cContext, cSlot, cLocals>>

\* One round of the loop that stores the bound variables.
StoreBoundVar ==
    /\ cPc = "store"
    /\ cStored < Len(cFn.types)
    /\ cMem' = StoreAt(cMem, FieldOffset(cFn.types, cFn.ptr, cStored + 1),
                       ValueBytes(cStored + 1, cFn.types[cStored + 1], cFn.ptr))
    /\ cStored' = cStored + 1
    /\ UNCHANGED <<cFn, cContext, cSlot, cLocals, cPc>>

\* The context: the pointer-sized value loaded from the alloca, or the
\* heap pointer.
MakeContext ==
    /\ cPc = "store"
    /\ cStored = Len(cFn.types)
    /\ cContext' = IF CreatorInline(cFn.types, cFn.ptr)
                   THEN [inline |-> TRUE, bytes |-> LoadAt(cMem, 0, cFn.ptr)]
                   ELSE [inline |-> FALSE, bytes |-> <<>>]
    /\ cPc' = "entry"
    /\ UNCHANGED <<cFn, cMem, cStored, cSlot, cLocals>>

\* (mutant of CalleeInline: the function always takes the context for a heap pointer)
CalleeInlineNever(types, ptr) ==
    FALSE

\* parseFunc: the context is kept in the pointer itself.
CalleeInline(types, ptr) == StructAllocSize(types, ptr) <= ptr

\* What the context parameter points to when it is taken for a pointer:
\* the heap block, or nothing known when the context holds the values.
Pointee(context, mem) == IF context.inline THEN <<>> ELSE mem

\* The bytes of the context parameter: the stored values, or an address.
RawBytes(context, ptr) ==
    IF context.inline THEN context.bytes ELSE [k \in 1..ptr |-> <<-1, k>>]

\* The entry of the function: the memory the free variables are read from.
EnterClosure ==
    /\ cPc = "entry"
    /\ cSlot' = IF CalleeInline(cFn.types, cFn.ptr)
                THEN RawBytes(cContext, cFn.ptr)
                ELSE Pointee(cContext, cMem)
    /\ cPc' = "load"
    /\ UNCHANGED <<cFn, cMem, cStored, cContext, cLocals>>

\* One round of the loop that loads the free variables.
LoadFreeVar ==
    /\ cPc = "load"
    /\ Len(cLocals) < Len(cFn.types)
    /\ cLocals' = Append(cLocals,
                         LoadAt(cSlot, FieldOffset(cFn.types, cFn.ptr, Len(cLocals) + 1),
                                ScalarSize(cFn.types[Len(cLocals) + 1], cFn.ptr)))
    /\ UNCHANGED <<cFn, cMem, cStored, cContext, cSlot, cPc>>

ClosureEntered ==
    /\ cPc = "load"
    /\ Len(cLocals) = Len(cFn.types)
    /\ cPc' = "done"
    /\ UNCHANGED <<cFn, cMem, cStored, cContext, cSlot, cLocals>>

ClosureNext ==
    \/ AllocContext /\ UNCHANGED notClosure
    \/ StoreBoundVar /\ UNCHANGED notClosure
    \/ MakeContext /\ UNCHANGED notClosure
    \/ EnterClosure /\ UNCHANGED notClosure
    \/ LoadFreeVar /\ UNCHANGED notClosure
    \/ ClosureEntered /\ UNCHANGED notClosure

InitClosure == ClosureInit /\ DeferIdle /\ LowerIdle /\ BoundsIdle /\ TypesIdle /\ DeclIdle /\ DriverIdle /\ ErrIdle /\ I64Idle /\ MainIdle /\ ShiftIdle /\ I2CIdle /\ StrIdle /\ MapIdle /\ ThunkIdle /\ IterIdle /\ Utf8Idle /\ PutcharIdle

SpecClosure == InitClosure /\ [][ClosureNext]_vars

----------------------------------------------------------------------------
(* SpecClosure: the claims.                                                *)

\* C25: the values the closure function loads for its free variables are
\* the values MakeClosure stored, field by field, and the function takes
\* the branch the creator took: the context in the pointer when the struct
\* of the bound variables is no larger than a pointer, on the heap
\* otherwise.
C25_ContextRoundTrip ==
    /\ cPc \in {"load", "done"} =>
          /\ cContext.inline = CalleeInline(cFn.types, cFn.ptr)
          /\ cContext.inline = (StructAllocSize(cFn.types, cFn.ptr) <= cFn.ptr)
          /\ \A i \in 1..Len(cLocals) : cLocals[i] = ValueBytes(i, cFn.types[i], cFn.ptr)
    /\ cPc = "done" => Len(cLocals) = Len(cFn.types)

\* A closure whose context fits in the pointer was entered, its free
\* variable loaded.
C25_Witness ==
    /\ cPc = "done"
    /\ cContext.inline
    /\ Len(cLocals) >= 1
    /\ cLocals[1] = ValueBytes(1, cFn.types[1], cFn.ptr)

----------------------------------------------------------------------------
(* SpecIter: a range loop over a string calling stringNext, which decodes  *)
(* with decodeUTF8.  s[k] here is s[k-1] of the source.                    *)

\* x & y and x | y on natural numbers.
RECURSIVE BitAnd(_, _)
BitAnd(x, y) ==
    IF x = 0 \/ y = 0 THEN 0
    ELSE ((x % 2) * (y % 2)) + 2 * BitAnd(x \div 2, y \div 2)

RECURSIVE BitOr(_, _)
BitOr(x, y) ==
    IF x = 0 THEN y
    ELSE IF y = 0 THEN x
    ELSE (IF x % 2 = 1 \/ y % 2 = 1 THEN 1 ELSE 0) + 2 * BitOr(x \div 2, y \div 2)

\* x << n and x >> n of a rune that stays within 31 bits.
Shl(x, n) == x * (2 ^ n)
Shr(x, n) == x \div (2 ^ n)

\* (mutant of decodeUTF8: the length of the sequence is not held against what remains)
decodeUTF8Unchecked(s, index) ==
    LET x == s[index + 1]
    IN CASE BitAnd(x, 128) = 0 -> <<x, 1>>
         [] BitAnd(x, 224) = 192 -> <<0, 2>>
         [] BitAnd(x, 240) = 224 -> <<0, 3>>
         [] BitAnd(x, 248) = 240 -> <<0, 4>>
         [] OTHER -> <<65533, 1>>

\* decodeUTF8: the rune at index and the number of bytes it takes.
decodeUTF8(s, index) ==
    LET remaining == Len(s) - index
        x == s[index + 1]
    IN CASE BitAnd(x, 128) = 0 -> <<x, 1>>
         [] BitAnd(x, 224) = 192 ->
               IF remaining < 2 THEN <<65533, 1>>
               ELSE << BitOr(Shl(BitAnd(x, 31), 6), BitAnd(s[index + 2], 63)), 2 >>
         [] BitAnd(x, 240) = 224 ->
               IF remaining < 3 THEN <<65533, 1>>
               ELSE << BitOr(BitOr(Shl(BitAnd(x, 15), 12), Shl(BitAnd(s[index + 2], 63), 6)),
                             BitAnd(s[index + 3], 63)), 3 >>
         [] BitAnd(x, 248) = 240 ->
               IF remaining < 4 THEN <<65533, 1>>
               ELSE << BitOr(BitOr(BitOr(Shl(BitAnd(x, 7), 18), Shl(BitAnd(s[index + 2], 63), 12)),
                                   Shl(BitAnd(s[index + 3], 63), 6)),
                             BitAnd(s[index + 4], 63)), 4 >>
         [] OTHER -> <<65533, 1>>

\* Bytes of every class decodeUTF8 tells apart: ASCII, a continuation
\* byte, the leads of 2, 3 and 4 bytes, and a byte that leads nothing.
IterBytes == {65, 169, 195, 226, 240, 248}

RECURSIVE IterStringsOfLen(_)
IterStringsOfLen(n) ==
    IF n = 0 THEN {<<>>}
    ELSE {Append(s, b) : s \in IterStringsOfLen(n - 1), b \in IterBytes}

IterInit ==
    /\ rS \in UNION {IterStringsOfLen(n) : n \in 0..MaxBytes}
    /\ rIt = [byteindex |-> 0, rangeindex |-> 0]
    /\ rCalls = <<>>
    /\ rPc = "loop"

\* stringNext with something left to decode: (true, key, rune).
StringNextRune ==
    /\ rPc = "loop"
    /\ ~(Len(rS) <= rIt.byteindex)
    /\ LET d == decodeUTF8(rS, rIt.byteindex)
           it == [byteindex |-> rIt.byteindex + d[2], rangeindex |-> rIt.rangeindex + 1]
       IN /\ rIt' = it
          /\ rCalls' = Append(rCalls, [ok |-> TRUE, key |-> it.rangeindex, value |-> d[1],
                                       before |-> rIt.byteindex, after |-> it.byteindex])
    /\ UNCHANGED <<rS, rPc>>

\* stringNext at the end: (false, 0, 0), and the loop is left.
StringNextEnd ==
    /\ rPc = "loop"
    /\ Len(rS) <= rIt.byteindex
    /\ rCalls' = Append(rCalls, [ok |-> FALSE, key |-> 0, value |-> 0,
                                 before |-> rIt.byteindex, after |-> rIt.byteindex])
    /\ rPc' = "done"
    /\ UNCHANGED <<rS, rIt>>

IterNext ==
    \/ StringNextRune /\ UNCHANGED notIter
    \/ StringNextEnd /\ UNCHANGED notIter

InitIter == IterInit /\ DeferIdle /\ LowerIdle /\ BoundsIdle /\ TypesIdle /\ DeclIdle /\ DriverIdle /\ ErrIdle /\ I64Idle /\ MainIdle /\ ShiftIdle /\ I2CIdle /\ StrIdle /\ MapIdle /\ ThunkIdle /\ ClosureIdle /\ Utf8Idle /\ PutcharIdle

SpecIter == InitIter /\ [][IterNext]_vars

----------------------------------------------------------------------------
(* SpecIter: the claims.                                                   *)

OkCalls == {j \in 1..Len(rCalls) : rCalls[j].ok}

\* C27: iterating from a zeroed iterator ends: a call that returns true
\* moves byteindex forward by 1 to 4, byteindex never passes len(s), a call
\* returns false, leaving the iterator as it is, exactly when byteindex is
\* at least len(s), and at most len(s) calls return true.
C27_IterationTerminates ==
    rPc # "idle" =>
        /\ rIt.byteindex <= Len(rS)
        /\ \A j \in 1..Len(rCalls) :
              /\ rCalls[j].ok <=> rCalls[j].before < Len(rS)
              /\ rCalls[j].ok => (rCalls[j].after - rCalls[j].before) \in 1..4
              /\ ~rCalls[j].ok => rCalls[j].after = rCalls[j].before
              /\ rCalls[j].after <= Len(rS)
        /\ Cardinality(OkCalls) <= Len(rS)
        /\ (rPc = "loop" /\ rIt.byteindex >= Len(rS)) => ENABLED StringNextEnd
        /\ rPc = "done" => ~rCalls[Len(rCalls)].ok

\* A string that ends in the lead byte of a longer sequence was iterated
\* to its end.
C27_Witness ==
    /\ rPc = "done"
    /\ Len(rS) >= 2
    /\ rS[Len(rS)] = 240
    /\ Cardinality(OkCalls) >= 2

\* C28 (as claimed): the key of every call that returns true is the byte
\* offset at which the returned rune starts; the first key is 0.
C28_KeyIsByteOffset ==
    \A j \in OkCalls : rCalls[j].key = rCalls[j].before

----------------------------------------------------------------------------
(* SpecUtf8: a rune encoded by encodeUTF8; the bytes it counts are decoded *)
(* at index 0 by decodeUTF8.                                               *)

\* byte(x): the low eight bits.
Byte(x) == x % 256

\* (mutant of encodeUTF8: one byte for every rune up to 0xff)
encodeUTF8WideAscii(x) ==
    CASE x <= 255 -> << <<Byte(x), 0, 0, 0>>, 1 >>
      [] OTHER -> << <<239, 191, 189, 0>>, 3 >>

\* encodeUTF8: the four-byte array and the number of bytes used.
encodeUTF8(x) ==
    CASE x <= 127 -> << <<Byte(x), 0, 0, 0>>, 1 >>
      [] x > 127 /\ x <= 2047 ->
            << << BitOr(192, Byte(Shr(x, 6))),
                  BitOr(128, Byte(BitAnd(x, 63))), 0, 0 >>, 2 >>
      [] x > 2047 /\ x <= 65535 ->
            << << BitOr(224, Byte(Shr(x, 12))),
                  BitOr(128, Byte(BitAnd(Shr(x, 6), 63))),
                  BitOr(128, Byte(BitAnd(x, 63))), 0 >>, 3 >>
      [] x > 65535 /\ x <= 1114111 ->
            << << BitOr(240, Byte(Shr(x, 18))),
                  BitOr(128, Byte(BitAnd(Shr(x, 12), 63))),
                  BitOr(128, Byte(BitAnd(Shr(x, 6), 63))),
                  BitOr(128, Byte(BitAnd(x, 63))) >>, 4 >>
      [] OTHER -> << <<239, 191, 189, 0>>, 3 >>

\* Where the length of the encoding changes, and the end of Unicode.
RuneEdges == {0, 128, 2048, 65536, 1114112}

\* The runes around every edge, the surrogates' first and U+FFFD.
Runes ==
    {x \in UNION {(e - RuneRun)..(e + RuneRun) : e \in RuneEdges} : x >= 0}
        \cup {55296, 65533}

Utf8Init ==
    /\ uX \in Runes
    /\ uEnc = <<>>
    /\ uDec = <<>>
    /\ uPc = "rune"

EncodeRune ==
    /\ uPc = "rune"
    /\ uEnc' = encodeUTF8(uX)
    /\ uPc' = "encoded"
    /\ UNCHANGED <<uX, uDec>>

\* The first n bytes of the array are the string that is decoded.
DecodeRune ==
    /\ uPc = "encoded"
    /\ uDec' = decodeUTF8(SubSeq(uEnc[1], 1, uEnc[2]), 0)
    /\ uPc' = "decoded"
    /\ UNCHANGED <<uX, uEnc>>

Utf8Next ==
    \/ EncodeRune /\ UNCHANGED notUtf8
    \/ DecodeRune /\ UNCHANGED notUtf8

InitUtf8 == Utf8Init /\ DeferIdle /\ LowerIdle /\ BoundsIdle /\ TypesIdle /\ DeclIdle /\ DriverIdle /\ ErrIdle /\ I64Idle /\ MainIdle /\ ShiftIdle /\ I2CIdle /\ StrIdle /\ MapIdle /\ ThunkIdle /\ ClosureIdle /\ IterIdle /\ PutcharIdle

SpecUtf8 == InitUtf8 /\ [][Utf8Next]_vars

----------------------------------------------------------------------------
(* SpecUtf8: the claims.                                                   *)

\* The length UTF-8 gives a rune.
Utf8Len(x) ==
    IF x <= 127 THEN 1 ELSE IF x <= 2047 THEN 2 ELSE IF x <= 65535 THEN 3 ELSE 4

\* C29: for 0 <= x <= 0x10ffff, encodeUTF8(x) = (bytes, n) has n = 1, 2, 3,
\* 4 for x up to 0x7f, 0x7ff, 0xffff, 0x10ffff, and decodeUTF8 at index 0
\* of the first n bytes returns (x, n); above 0x10ffff encodeUTF8 returns
\* the three bytes EF BF BD.
C29_Utf8RoundTrip ==
    /\ (uPc \in {"encoded", "decoded"} /\ uX <= 1114111) => uEnc[2] = Utf8Len(uX)
    /\ (uPc = "decoded" /\ uX <= 1114111) => uDec = <<uX, uEnc[2]>>
    /\ (uPc \in {"encoded", "decoded"} /\ uX > 1114111) =>
           /\ uEnc[2] = 3
           /\ SubSeq(uEnc[1], 1, 3) = <<239, 191, 189>>

\* A rune of four bytes came back.
C29_Witness ==
    /\ uPc = "decoded"
    /\ uX > 65535
    /\ uX <= 1114111
    /\ uEnc[2] = 4
    /\ uDec[1] = uX

----------------------------------------------------------------------------
(* SpecPutchar: calls of putchar on the wasm runtime, which gathers a line *)
(* in the package variable line and hands it to writeLog at a newline.     *)

logLevelInfo == 6

\* '\r' and '\n'.
CR == 13
LF == 10

\* What is printed: the line ends and two other characters.
PutChars == {CR, LF, 97, 98}

PutcharInit ==
    /\ pLine = <<>>
    /\ pLog = <<>>
    /\ pChars = <<>>

\* writeLog(level, line): the line as it is at the call.
writeLog(level, line) == Append(pLog, [level |-> level, line |-> line])

\* (mutant of PutcharNewline: the line is written but not emptied)
PutcharNewlineKeeps ==
    /\ Len(pChars) < MaxPut
    /\ pChars' = Append(pChars, LF)
    /\ pLog' = writeLog(logLevelInfo, pLine)
    /\ pLine' = pLine

\* putchar('\n'): the line is written and emptied.
PutcharNewline ==
    /\ Len(pChars) < MaxPut
    /\ pChars' = Append(pChars, LF)
    /\ pLog' = writeLog(logLevelInfo, pLine)
    /\ pLine' = SubSeq(pLine, 1, 0)

\* putchar('\r'): ignored.
PutcharReturn ==
    /\ Len(pChars) < MaxPut
    /\ pChars' = Append(pChars, CR)
    /\ UNCHANGED <<pLine, pLog>>

\* putchar of any other byte: appended to the line.
PutcharAppend ==
    /\ Len(pChars) < MaxPut
    /\ \E c \in PutChars \ {CR, LF} :
          /\ pChars' = Append(pChars, c)
          /\ pLine' = Append(pLine, c)
    /\ UNCHANGED pLog

PutcharNext ==
    \/ PutcharReturn /\ UNCHANGED notPutchar
    \/ PutcharNewline /\ UNCHANGED notPutchar
    \/ PutcharAppend /\ UNCHANGED notPutchar

InitPutchar == PutcharInit /\ DeferIdle /\ LowerIdle /\ BoundsIdle /\ TypesIdle /\ DeclIdle /\ DriverIdle /\ ErrIdle /\ I64Idle /\ MainIdle /\ ShiftIdle /\ I2CIdle /\ StrIdle /\ MapIdle /\ ThunkIdle /\ ClosureIdle /\ IterIdle /\ Utf8Idle

SpecPutchar == InitPutchar /\ [][PutcharNext]_vars

----------------------------------------------------------------------------
(* SpecPutchar: the claims.                                                *)

\* The bytes of s that are not '\r'.
RECURSIVE WithoutCR(_)
WithoutCR(s) ==
    IF s = <<>> THEN <<>>
    ELSE IF s[1] = CR THEN WithoutCR(Tail(s))
    ELSE <<s[1]>> \o WithoutCR(Tail(s))

\* The lines s holds, each ended by '\n', and what follows the last '\n'.
RECURSIVE SplitLines(_, _, _)
SplitLines(s, lines, cur) ==
    IF s = <<>> THEN [lines |-> lines, rest |-> cur]
    ELSE IF s[1] = LF THEN SplitLines(Tail(s), Append(lines, cur), <<>>)
    ELSE SplitLines(Tail(s), lines, Append(cur, s[1]))

Printed == SplitLines(WithoutCR(pChars), <<>>, <<>>)

\* C30: after any calls of putchar the line buffer holds exactly the
\* characters printed since the last '\n', in order and without '\r'; every
\* '\n' made exactly one call of writeLog, carrying the line gathered up to
\* it, and emptied the buffer; '\r' changes nothing.
C30_LineBufferAndLog ==
    /\ pLine = Printed.rest
    /\ Len(pLog) = Len(Printed.lines)
    /\ \A j \in 1..Len(pLog) :
          pLog[j] = [level |-> logLevelInfo, line |-> Printed.lines[j]]

\* Two lines were written, the second not empty and with a '\r' inside,
\* and more was printed since.
C30_Witness ==
    /\ Len(pLog) = 2
    /\ pLog[2].line # <<>>
    /\ \E j \in 1..Len(pChars) : pChars[j] = CR
    /\ pLine # <<>>

=============================================================================
